---------------------------- MODULE Spec2Model ----------------------------
(***************************************************************************)
(* String-matching code of INSTANT-SOFTWARE-SOLUTIONS.                     *)
(*                                                                         *)
(* A string is a sequence of character codes; the JavaScript index k of a  *)
(* string or array is position k + 1 of the sequence.  One matcher call is *)
(* in progress at a time; `frame' is its activation record: the function   *)
(* (fn), the position in it (pc) and its local variables under the names   *)
(* the source gives them.  A loop iteration of a matcher is one step.      *)
(***************************************************************************)
EXTENDS Integers, Sequences, FiniteSets, TLC

\* Bounds of the model: the longest text, pattern, and computeLPS argument.
MaxText == 3
MaxPat == 3
MaxLps == 7

\* The characters of texts and patterns: "\n" (10), "a" (97), "o" (111).
\* 10 and 111 have the same residue modulo prime, so Rabin-Karp windows collide.
Alphabet == {10, 97, 111}

\* The characters of the patterns given to computeLPS alone: "a", "b", "c".
LpsAlphabet == {97, 98, 99}

VARIABLES
    text,        \* the text searched
    pattern,     \* the pattern searched for
    algorithm,   \* the algorithm tag of the dispatcher call in progress
    frame,       \* the activation record of the call in progress
    prefix       \* `static int prefix' of hashing in the standalone C++ class

vars == <<text, pattern, algorithm, frame, prefix>>

Strings(S, max) == UNION {[1..k -> S] : k \in 0..max}

(***************************************************************************)
(* JavaScript values                                                       *)
(***************************************************************************)

\* The value of a read outside a string or an array.
undefined == -1

\* s[k] of a string or an array.
At(s, k) == IF k \in 0..(Len(s) - 1) THEN s[k + 1] ELSE undefined

\* a % b of JavaScript for b > 0: the remainder has the sign of a.
JsRem(a, b) == IF a >= 0 THEN a % b ELSE -((-a) % b)

Idle == [fn |-> "idle", pc |-> "idle"]

(***************************************************************************)
(* script.js, Algorithm Tester: naiveStringMatching                        *)
(***************************************************************************)

\* The inner loop over j: TRUE when no character differs.
RECURSIVE naive_inner(_, _, _, _)
naive_inner(t, p, i, j) ==
    IF j < Len(p)
    THEN IF At(t, i + j) # At(p, j) THEN FALSE ELSE naive_inner(t, p, i, j + 1)
    ELSE TRUE

naiveStringMatching_call(t, p) ==
    IF Len(p) = 0 \/ Len(t) = 0 \/ Len(p) > Len(t)
    THEN [fn |-> "naiveStringMatching", pc |-> "done", i |-> 0, matches |-> <<>>]
    ELSE [fn |-> "naiveStringMatching", pc |-> "loop", i |-> 0, matches |-> <<>>]

\* Faulty variant of naiveStringMatching_loop: the loop stops one window early
\* (i < n - m).
naiveStringMatching_loop_short(f, t, p) ==
    IF f.i < Len(t) - Len(p)
    THEN [f EXCEPT !.matches = IF naive_inner(t, p, f.i, 0) THEN Append(@, f.i) ELSE @,
                   !.i = @ + 1]
    ELSE [f EXCEPT !.pc = "done"]

naiveStringMatching_loop(f, t, p) ==
    IF f.i <= Len(t) - Len(p)
    THEN [f EXCEPT !.matches = IF naive_inner(t, p, f.i, 0) THEN Append(@, f.i) ELSE @,
                   !.i = @ + 1]
    ELSE [f EXCEPT !.pc = "done"]

(***************************************************************************)
(* script.js, Algorithm Tester: computeLPS and kmpStringMatching           *)
(***************************************************************************)

\* Faulty variant of computeLPS_call: the scan starts at i = 0.
computeLPS_call_fromZero(p) ==
    [fn |-> "computeLPS", pc |-> "computeLPS",
     lps |-> [k \in 1..Len(p) |-> 0], len |-> 0, i |-> 0]

computeLPS_call(p) ==
    [fn |-> "computeLPS", pc |-> "computeLPS",
     lps |-> [k \in 1..Len(p) |-> 0], len |-> 0, i |-> 1]

\* Faulty variant of computeLPS_loop: on a mismatch len falls back to 0.
computeLPS_loop_reset(f, p) ==
    IF At(p, f.i) = At(p, f.len)
    THEN [f EXCEPT !.len = @ + 1, !.lps[f.i + 1] = f.len + 1, !.i = @ + 1]
    ELSE IF f.len # 0
         THEN [f EXCEPT !.len = 0]
         ELSE [f EXCEPT !.lps[f.i + 1] = 0, !.i = @ + 1]

\* One iteration of the while loop of computeLPS (i < m).
computeLPS_loop(f, p) ==
    IF At(p, f.i) = At(p, f.len)
    THEN [f EXCEPT !.len = @ + 1, !.lps[f.i + 1] = f.len + 1, !.i = @ + 1]
    ELSE IF f.len # 0
         THEN [f EXCEPT !.len = At(f.lps, f.len - 1)]
         ELSE [f EXCEPT !.lps[f.i + 1] = 0, !.i = @ + 1]

computeLPS_step(f, p) ==
    IF f.i < Len(p) THEN computeLPS_loop(f, p) ELSE [f EXCEPT !.pc = "done"]

kmpStringMatching_call(t, p) ==
    IF Len(p) = 0 \/ Len(t) = 0
    THEN [fn |-> "kmpStringMatching", pc |-> "done", lps |-> <<>>, len |-> 0,
          i |-> 0, j |-> 0, matches |-> <<>>]
    ELSE [fn |-> "kmpStringMatching", pc |-> "computeLPS",
          lps |-> computeLPS_call(p).lps, len |-> 0, i |-> 1, j |-> 0,
          matches |-> <<>>]

\* Faulty variant of kmpStringMatching_loop: after a match j restarts at 0.
kmpStringMatching_loop_restart(f, t, p) ==
    LET hit == At(t, f.i) = At(p, f.j)
        i1 == IF hit THEN f.i + 1 ELSE f.i
        j1 == IF hit THEN f.j + 1 ELSE f.j
    IN  IF j1 = Len(p)
        THEN [f EXCEPT !.matches = Append(@, i1 - j1), !.i = i1, !.j = 0]
        ELSE IF i1 < Len(t) /\ At(t, i1) # At(p, j1)
             THEN IF j1 # 0
                  THEN [f EXCEPT !.i = i1, !.j = At(f.lps, j1 - 1)]
                  ELSE [f EXCEPT !.i = i1 + 1, !.j = j1]
             ELSE [f EXCEPT !.i = i1, !.j = j1]

\* Faulty variant of kmpStringMatching_loop: a mismatch after a partial match falls
\* back in the pattern and also moves on in the text.
kmpStringMatching_loop_advance(f, t, p) ==
    LET hit == At(t, f.i) = At(p, f.j)
        i1 == IF hit THEN f.i + 1 ELSE f.i
        j1 == IF hit THEN f.j + 1 ELSE f.j
    IN  IF j1 = Len(p)
        THEN [f EXCEPT !.matches = Append(@, i1 - j1), !.i = i1,
                       !.j = At(f.lps, j1 - 1)]
        ELSE IF i1 < Len(t) /\ At(t, i1) # At(p, j1)
             THEN IF j1 # 0
                  THEN [f EXCEPT !.i = i1 + 1, !.j = At(f.lps, j1 - 1)]
                  ELSE [f EXCEPT !.i = i1 + 1, !.j = j1]
             ELSE [f EXCEPT !.i = i1, !.j = j1]

\* Faulty variant of kmpStringMatching_loop: after a match j falls back to lps[j],
\* one entry past the last.
kmpStringMatching_loop_offByOne(f, t, p) ==
    LET hit == At(t, f.i) = At(p, f.j)
        i1 == IF hit THEN f.i + 1 ELSE f.i
        j1 == IF hit THEN f.j + 1 ELSE f.j
    IN  IF j1 = Len(p)
        THEN [f EXCEPT !.matches = Append(@, i1 - j1), !.i = i1,
                       !.j = At(f.lps, j1)]
        ELSE IF i1 < Len(t) /\ At(t, i1) # At(p, j1)
             THEN IF j1 # 0
                  THEN [f EXCEPT !.i = i1, !.j = At(f.lps, j1 - 1)]
                  ELSE [f EXCEPT !.i = i1 + 1, !.j = j1]
             ELSE [f EXCEPT !.i = i1, !.j = j1]

\* One iteration of the search loop (i < n).
kmpStringMatching_loop(f, t, p) ==
    LET hit == At(t, f.i) = At(p, f.j)
        i1 == IF hit THEN f.i + 1 ELSE f.i
        j1 == IF hit THEN f.j + 1 ELSE f.j
    IN  IF j1 = Len(p)
        THEN [f EXCEPT !.matches = Append(@, i1 - j1), !.i = i1,
                       !.j = At(f.lps, j1 - 1)]
        ELSE IF i1 < Len(t) /\ At(t, i1) # At(p, j1)
             THEN IF j1 # 0
                  THEN [f EXCEPT !.i = i1, !.j = At(f.lps, j1 - 1)]
                  ELSE [f EXCEPT !.i = i1 + 1, !.j = j1]
             ELSE [f EXCEPT !.i = i1, !.j = j1]

kmpStringMatching_step(f, t, p) ==
    IF f.pc = "computeLPS"
    THEN IF f.i < Len(p)
         THEN computeLPS_loop(f, p)
         ELSE [f EXCEPT !.pc = "loop", !.i = 0, !.j = 0]
    ELSE IF f.i < Len(t)
         THEN kmpStringMatching_loop(f, t, p)
         ELSE [f EXCEPT !.pc = "done"]

(***************************************************************************)
(* script.js, Algorithm Tester: rabinKarpStringMatching                    *)
(***************************************************************************)

\* `prime' and `base' of the Rabin-Karp matchers (the keyword-list code and
\* sentiment.js declare the same two values).
prime == 101
base == 256

\* h = base^(m-1) % prime, by the loop over i < m - 1.
RECURSIVE rabinKarp_h(_, _, _)
rabinKarp_h(h, i, m) ==
    IF i < m - 1 THEN rabinKarp_h((h * base) % prime, i + 1, m) ELSE h

\* The hash of the first m characters of s, by the loop over i < m.
RECURSIVE rabinKarp_hash(_, _, _, _)
rabinKarp_hash(s, hash, i, m) ==
    IF i < m
    THEN rabinKarp_hash(s, (base * hash + At(s, i)) % prime, i + 1, m)
    ELSE hash

\* Faulty variant of rabinKarp_roll: a negative remainder is kept as it is.
rabinKarp_roll_negative(t, textHash, h, i, m) ==
    JsRem(base * (textHash - At(t, i) * h) + At(t, i + m), prime)

\* The hash of the next window, from the hash of the window at i.
rabinKarp_roll(t, textHash, h, i, m) ==
    LET rolled == JsRem(base * (textHash - At(t, i) * h) + At(t, i + m), prime)
    IN  IF rolled < 0 THEN rolled + prime ELSE rolled

\* Faulty variant of rabinKarp_verify: equal hashes are taken as a match.
rabinKarp_verify_trusting(t, p, i, j) == TRUE

\* The character by character verification after equal hashes.
RECURSIVE rabinKarp_verify(_, _, _, _)
rabinKarp_verify(t, p, i, j) ==
    IF j < Len(p)
    THEN IF At(t, i + j) # At(p, j) THEN FALSE ELSE rabinKarp_verify(t, p, i, j + 1)
    ELSE TRUE

rabinKarpStringMatching_call(t, p) ==
    IF Len(p) = 0 \/ Len(t) = 0 \/ Len(p) > Len(t)
    THEN [fn |-> "rabinKarpStringMatching", pc |-> "done", i |-> 0,
          patternHash |-> 0, textHash |-> 0, h |-> 1, matches |-> <<>>]
    ELSE [fn |-> "rabinKarpStringMatching", pc |-> "loop", i |-> 0,
          patternHash |-> rabinKarp_hash(p, 0, 0, Len(p)),
          textHash |-> rabinKarp_hash(t, 0, 0, Len(p)),
          h |-> rabinKarp_h(1, 0, Len(p)), matches |-> <<>>]

rabinKarpStringMatching_loop(f, t, p) ==
    IF f.i <= Len(t) - Len(p)
    THEN [f EXCEPT
            !.matches = IF f.patternHash = f.textHash /\ rabinKarp_verify(t, p, f.i, 0)
                        THEN Append(@, f.i) ELSE @,
            !.textHash = IF f.i < Len(t) - Len(p)
                         THEN rabinKarp_roll(t, f.textHash, f.h, f.i, Len(p))
                         ELSE @,
            !.i = @ + 1]
    ELSE [f EXCEPT !.pc = "done"]

(***************************************************************************)
(* script.js, Algorithm Tester: horspoolStringMatching                     *)
(***************************************************************************)

\* obj[k] = v and obj[k] of an object used as a table keyed by character.
Put(obj, k, v) == [c \in (DOMAIN obj) \cup {k} |-> IF c = k THEN v ELSE obj[c]]
Get(obj, k) == IF k \in DOMAIN obj THEN obj[k] ELSE undefined

\* Faulty variant of horspool_shiftTable: an entry already written is kept, so a
\* repeated character keeps the shift of its leftmost occurrence.
RECURSIVE horspool_shiftTable_leftmost(_, _, _)
horspool_shiftTable_leftmost(p, shiftTable, i) ==
    IF i < Len(p) - 1
    THEN horspool_shiftTable_leftmost(
             p,
             IF At(p, i) \in DOMAIN shiftTable
             THEN shiftTable
             ELSE Put(shiftTable, At(p, i), Len(p) - 1 - i),
             i + 1)
    ELSE shiftTable

\* Faulty variant of horspool_shiftTable: the loop runs over every position of the
\* pattern, so the last character is stored with the value 0.
RECURSIVE horspool_shiftTable_whole(_, _, _)
horspool_shiftTable_whole(p, shiftTable, i) ==
    IF i < Len(p)
    THEN horspool_shiftTable_whole(p, Put(shiftTable, At(p, i), Len(p) - 1 - i), i + 1)
    ELSE shiftTable

\* The bad character shift table, by the loop over i < m - 1.
RECURSIVE horspool_shiftTable(_, _, _)
horspool_shiftTable(p, shiftTable, i) ==
    IF i < Len(p) - 1
    THEN horspool_shiftTable(p, Put(shiftTable, At(p, i), Len(p) - 1 - i), i + 1)
    ELSE shiftTable

\* The right to left comparison: the j it stops at.
RECURSIVE horspool_inner(_, _, _, _)
horspool_inner(t, p, i, j) ==
    IF j >= 0 /\ At(t, i + j) = At(p, j) THEN horspool_inner(t, p, i, j - 1) ELSE j

\* Faulty variant of horspoolStringMatching_call: the guard does not test for an
\* empty pattern.
horspoolStringMatching_call_unguarded(t, p) ==
    IF Len(p) > Len(t)
    THEN [fn |-> "horspoolStringMatching", pc |-> "done", i |-> 0,
          shiftTable |-> <<>>, matches |-> <<>>]
    ELSE [fn |-> "horspoolStringMatching", pc |-> "loop", i |-> 0,
          shiftTable |-> horspool_shiftTable(p, <<>>, 0), matches |-> <<>>]

horspoolStringMatching_call(t, p) ==
    IF Len(p) = 0 \/ Len(t) = 0 \/ Len(p) > Len(t)
    THEN [fn |-> "horspoolStringMatching", pc |-> "done", i |-> 0,
          shiftTable |-> <<>>, matches |-> <<>>]
    ELSE [fn |-> "horspoolStringMatching", pc |-> "loop", i |-> 0,
          shiftTable |-> horspool_shiftTable(p, <<>>, 0), matches |-> <<>>]

\* Faulty variant of horspoolStringMatching_loop: after a match the window moves by
\* the pattern length, not by 1.
horspoolStringMatching_loop_skip(f, t, p) ==
    IF f.i <= Len(t) - Len(p)
    THEN IF horspool_inner(t, p, f.i, Len(p) - 1) < 0
         THEN [f EXCEPT !.matches = Append(@, f.i), !.i = @ + Len(p)]
         ELSE LET shift == Get(f.shiftTable, At(t, f.i + Len(p) - 1))
              IN  [f EXCEPT !.i = @ + (IF shift # undefined THEN shift ELSE Len(p))]
    ELSE [f EXCEPT !.pc = "done"]

\* Faulty variant of horspoolStringMatching_loop: a character without a table
\* entry shifts the window by nothing.
horspoolStringMatching_loop_stall(f, t, p) ==
    IF f.i <= Len(t) - Len(p)
    THEN IF horspool_inner(t, p, f.i, Len(p) - 1) < 0
         THEN [f EXCEPT !.matches = Append(@, f.i), !.i = @ + 1]
         ELSE LET shift == Get(f.shiftTable, At(t, f.i + Len(p) - 1))
              IN  [f EXCEPT !.i = @ + (IF shift # undefined THEN shift ELSE 0)]
    ELSE [f EXCEPT !.pc = "done"]

horspoolStringMatching_loop(f, t, p) ==
    IF f.i <= Len(t) - Len(p)
    THEN IF horspool_inner(t, p, f.i, Len(p) - 1) < 0
         THEN [f EXCEPT !.matches = Append(@, f.i), !.i = @ + 1]
         ELSE LET shift == Get(f.shiftTable, At(t, f.i + Len(p) - 1))
              IN  [f EXCEPT !.i = @ + (IF shift # undefined THEN shift ELSE Len(p))]
    ELSE [f EXCEPT !.pc = "done"]

(***************************************************************************)
(* script.js, Algorithm Tester: computeRowCol and performStringMatching    *)
(***************************************************************************)

RECURSIVE computeRowCol_loop(_, _, _, _, _)
computeRowCol_loop(t, index, i, row, col) ==
    IF i < index
    THEN IF At(t, i) = 10
         THEN computeRowCol_loop(t, index, i + 1, row + 1, 1)
         ELSE computeRowCol_loop(t, index, i + 1, row, col + 1)
    ELSE [row |-> row, col |-> col]

computeRowCol(t, index) == computeRowCol_loop(t, index, 0, 1, 1)

\* Faulty variant of performStringMatching_call: the switch has no case "horspool".
performStringMatching_call_noHorspool(t, p, alg) ==
    CASE alg = "naive" -> naiveStringMatching_call(t, p)
      [] alg = "kmp" -> kmpStringMatching_call(t, p)
      [] alg = "hashing" -> rabinKarpStringMatching_call(t, p)
      [] OTHER -> naiveStringMatching_call(t, p)

\* The switch of performStringMatching: the matcher it calls.
performStringMatching_call(t, p, alg) ==
    CASE alg = "naive" -> naiveStringMatching_call(t, p)
      [] alg = "kmp" -> kmpStringMatching_call(t, p)
      [] alg = "hashing" -> rabinKarpStringMatching_call(t, p)
      [] alg = "horspool" -> horspoolStringMatching_call(t, p)
      [] OTHER -> naiveStringMatching_call(t, p)

\* What performStringMatching returns from the indices of the matcher
\* (processingTime, a wall-clock reading, is left out).
performStringMatching_return(indices, t, p, alg) ==
    [fn |-> "performStringMatching", pc |-> "returned",
     matches |-> [k \in 1..Len(indices) |->
                    [pos |-> indices[k],
                     row |-> computeRowCol(t, indices[k]).row,
                     col |-> computeRowCol(t, indices[k]).col]],
     count |-> Len(indices),
     algorithm |-> alg,
     pattern |-> p]

(***************************************************************************)
(* script.js, keyword-list sentiment code: findMatches and its matchers    *)
(* naiveSearch, horspoolSearch, kmpSearch, hashingSearch (no guards)       *)
(***************************************************************************)

\* The inner loop over j of naiveSearch: the j it stops at.
RECURSIVE script_naiveSearch_inner(_, _, _, _)
script_naiveSearch_inner(t, p, i, j) ==
    IF j < Len(p)
    THEN IF At(t, i + j) # At(p, j) THEN j ELSE script_naiveSearch_inner(t, p, i, j + 1)
    ELSE j

script_naiveSearch_call(t, p) ==
    [fn |-> "script.naiveSearch", pc |-> "loop", i |-> 0, matches |-> <<>>]

script_naiveSearch_loop(f, t, p) ==
    IF f.i <= Len(t) - Len(p)
    THEN [f EXCEPT !.matches = IF script_naiveSearch_inner(t, p, f.i, 0) = Len(p)
                               THEN Append(@, f.i) ELSE @,
                   !.i = @ + 1]
    ELSE [f EXCEPT !.pc = "done"]

RECURSIVE script_horspoolSearch_badChar(_, _, _)
script_horspoolSearch_badChar(p, badChar, i) ==
    IF i < Len(p) - 1
    THEN script_horspoolSearch_badChar(p, Put(badChar, At(p, i), Len(p) - 1 - i), i + 1)
    ELSE badChar

RECURSIVE script_horspoolSearch_inner(_, _, _, _)
script_horspoolSearch_inner(t, p, i, j) ==
    IF j >= 0 /\ At(p, j) = At(t, i + j)
    THEN script_horspoolSearch_inner(t, p, i, j - 1)
    ELSE j

script_horspoolSearch_call(t, p) ==
    [fn |-> "script.horspoolSearch", pc |-> "loop", i |-> 0,
     badChar |-> script_horspoolSearch_badChar(p, <<>>, 0), matches |-> <<>>]

\* badChar[c] || m: undefined and 0 both give m.
script_horspoolSearch_loop(f, t, p) ==
    IF f.i <= Len(t) - Len(p)
    THEN IF script_horspoolSearch_inner(t, p, f.i, Len(p) - 1) < 0
         THEN [f EXCEPT !.matches = Append(@, f.i), !.i = @ + 1]
         ELSE LET b == Get(f.badChar, At(t, f.i + Len(p) - 1))
                  shift == IF b = undefined \/ b = 0 THEN Len(p) ELSE b
              IN  [f EXCEPT !.i = @ + shift]
    ELSE [f EXCEPT !.pc = "done"]

\* while (j > 0 && c !== pattern[j]) j = failure[j - 1]: the j it stops at.
\* An undefined j is not > 0.
RECURSIVE script_kmpSearch_fallback(_, _, _, _)
script_kmpSearch_fallback(p, failure, j, c) ==
    IF j # undefined /\ j > 0 /\ c # At(p, j)
    THEN script_kmpSearch_fallback(p, failure, At(failure, j - 1), c)
    ELSE j

script_kmpSearch_call(t, p) ==
    [fn |-> "script.kmpSearch", pc |-> "failure", failure |-> <<0>>, j |-> 0,
     i |-> 1, matches |-> <<>>]

\* One iteration of the loop that builds the failure function (i < m),
\* then of the search loop (i < n).
script_kmpSearch_loop(f, t, p) ==
    IF f.pc = "failure"
    THEN IF f.i < Len(p)
         THEN LET j1 == script_kmpSearch_fallback(p, f.failure, f.j, At(p, f.i))
                  j2 == IF At(p, f.i) = At(p, j1) THEN j1 + 1 ELSE j1
              IN  [f EXCEPT !.failure = Append(@, j2), !.j = j2, !.i = @ + 1]
         ELSE [f EXCEPT !.pc = "search", !.j = 0, !.i = 0]
    ELSE IF f.i < Len(t)
         THEN LET j1 == script_kmpSearch_fallback(p, f.failure, f.j, At(t, f.i))
                  j2 == IF At(t, f.i) = At(p, j1) THEN j1 + 1 ELSE j1
              IN  IF j2 = Len(p)
                  THEN [f EXCEPT !.matches = Append(@, f.i - Len(p) + 1),
                                 !.j = At(f.failure, j2 - 1), !.i = @ + 1]
                  ELSE [f EXCEPT !.j = j2, !.i = @ + 1]
         ELSE [f EXCEPT !.pc = "done"]

RECURSIVE script_hashingSearch_verify(_, _, _, _)
script_hashingSearch_verify(t, p, i, j) ==
    IF j < Len(p)
    THEN IF At(t, i + j) # At(p, j)
         THEN FALSE
         ELSE script_hashingSearch_verify(t, p, i, j + 1)
    ELSE TRUE

RECURSIVE script_hashingSearch_h(_, _, _)
script_hashingSearch_h(h, i, m) ==
    IF i < m - 1 THEN script_hashingSearch_h((h * base) % prime, i + 1, m) ELSE h

RECURSIVE script_hashingSearch_hash(_, _, _, _)
script_hashingSearch_hash(s, hash, i, m) ==
    IF i < m
    THEN script_hashingSearch_hash(s, (base * hash + At(s, i)) % prime, i + 1, m)
    ELSE hash

script_hashingSearch_call(t, p) ==
    IF Len(p) > Len(t)
    THEN [fn |-> "script.hashingSearch", pc |-> "done", i |-> 0,
          patternHash |-> 0, textHash |-> 0, h |-> 1, matches |-> <<>>]
    ELSE [fn |-> "script.hashingSearch", pc |-> "loop", i |-> 0,
          patternHash |-> script_hashingSearch_hash(p, 0, 0, Len(p)),
          textHash |-> script_hashingSearch_hash(t, 0, 0, Len(p)),
          h |-> script_hashingSearch_h(1, 0, Len(p)), matches |-> <<>>]

script_hashingSearch_loop(f, t, p) ==
    IF f.i <= Len(t) - Len(p)
    THEN LET rolled == JsRem(base * (f.textHash - At(t, f.i) * f.h)
                             + At(t, f.i + Len(p)), prime)
         IN  [f EXCEPT
                !.matches = IF f.patternHash = f.textHash
                               /\ script_hashingSearch_verify(t, p, f.i, 0)
                            THEN Append(@, f.i) ELSE @,
                !.textHash = IF f.i < Len(t) - Len(p)
                             THEN (IF rolled < 0 THEN rolled + prime ELSE rolled)
                             ELSE @,
                !.i = @ + 1]
    ELSE [f EXCEPT !.pc = "done"]

\* The switch of findMatches: the matcher it calls.
script_findMatches_call(t, p, alg) ==
    CASE alg = "naive" -> script_naiveSearch_call(t, p)
      [] alg = "horspool" -> script_horspoolSearch_call(t, p)
      [] alg = "kmp" -> script_kmpSearch_call(t, p)
      [] alg = "hashing" -> script_hashingSearch_call(t, p)
      [] OTHER -> script_naiveSearch_call(t, p)

(***************************************************************************)
(* sentiment.js: naiveSearch, kmpSearch, hashingSearch, horspoolSearch     *)
(***************************************************************************)

RECURSIVE sentiment_naiveSearch_inner(_, _, _, _)
sentiment_naiveSearch_inner(t, p, i, j) ==
    IF j < Len(p)
    THEN IF At(t, i + j) # At(p, j)
         THEN FALSE
         ELSE sentiment_naiveSearch_inner(t, p, i, j + 1)
    ELSE TRUE

sentiment_naiveSearch_call(t, p) ==
    IF Len(p) = 0 \/ Len(t) = 0 \/ Len(p) > Len(t)
    THEN [fn |-> "sentiment.naiveSearch", pc |-> "done", i |-> 0, matches |-> <<>>]
    ELSE [fn |-> "sentiment.naiveSearch", pc |-> "loop", i |-> 0, matches |-> <<>>]

sentiment_naiveSearch_loop(f, t, p) ==
    IF f.i <= Len(t) - Len(p)
    THEN [f EXCEPT !.matches = IF sentiment_naiveSearch_inner(t, p, f.i, 0)
                               THEN Append(@, f.i) ELSE @,
                   !.i = @ + 1]
    ELSE [f EXCEPT !.pc = "done"]

sentiment_kmpSearch_call(t, p) ==
    IF Len(p) = 0 \/ Len(t) = 0
    THEN [fn |-> "sentiment.kmpSearch", pc |-> "done", lps |-> <<>>, len |-> 0,
          i |-> 0, j |-> 0, matches |-> <<>>]
    ELSE [fn |-> "sentiment.kmpSearch", pc |-> "lps",
          lps |-> [k \in 1..Len(p) |-> 0], len |-> 0, i |-> 1, j |-> 0,
          matches |-> <<>>]

\* One iteration of the loop that builds the LPS array (i < m), then of the
\* search loop (i < n).
sentiment_kmpSearch_loop(f, t, p) ==
    IF f.pc = "lps"
    THEN IF f.i < Len(p)
         THEN IF At(p, f.i) = At(p, f.len)
              THEN [f EXCEPT !.len = @ + 1, !.lps[f.i + 1] = f.len + 1, !.i = @ + 1]
              ELSE IF f.len # 0
                   THEN [f EXCEPT !.len = At(f.lps, f.len - 1)]
                   ELSE [f EXCEPT !.lps[f.i + 1] = 0, !.i = @ + 1]
         ELSE [f EXCEPT !.pc = "search", !.i = 0, !.j = 0]
    ELSE IF f.i < Len(t)
         THEN LET hit == At(t, f.i) = At(p, f.j)
                  i1 == IF hit THEN f.i + 1 ELSE f.i
                  j1 == IF hit THEN f.j + 1 ELSE f.j
              IN  IF j1 = Len(p)
                  THEN [f EXCEPT !.matches = Append(@, i1 - j1), !.i = i1,
                                 !.j = At(f.lps, j1 - 1)]
                  ELSE IF i1 < Len(t) /\ At(t, i1) # At(p, j1)
                       THEN IF j1 # 0
                            THEN [f EXCEPT !.i = i1, !.j = At(f.lps, j1 - 1)]
                            ELSE [f EXCEPT !.i = i1 + 1, !.j = j1]
                       ELSE [f EXCEPT !.i = i1, !.j = j1]
         ELSE [f EXCEPT !.pc = "done"]

RECURSIVE sentiment_hashingSearch_verify(_, _, _, _)
sentiment_hashingSearch_verify(t, p, i, j) ==
    IF j < Len(p)
    THEN IF At(t, i + j) # At(p, j)
         THEN FALSE
         ELSE sentiment_hashingSearch_verify(t, p, i, j + 1)
    ELSE TRUE

RECURSIVE sentiment_hashingSearch_h(_, _, _)
sentiment_hashingSearch_h(h, i, m) ==
    IF i < m - 1 THEN sentiment_hashingSearch_h((h * base) % prime, i + 1, m) ELSE h

RECURSIVE sentiment_hashingSearch_hash(_, _, _, _)
sentiment_hashingSearch_hash(s, hash, i, m) ==
    IF i < m
    THEN sentiment_hashingSearch_hash(s, (base * hash + At(s, i)) % prime, i + 1, m)
    ELSE hash

sentiment_hashingSearch_call(t, p) ==
    IF Len(p) = 0 \/ Len(t) = 0 \/ Len(p) > Len(t)
    THEN [fn |-> "sentiment.hashingSearch", pc |-> "done", i |-> 0,
          patternHash |-> 0, textHash |-> 0, h |-> 1, matches |-> <<>>]
    ELSE [fn |-> "sentiment.hashingSearch", pc |-> "loop", i |-> 0,
          patternHash |-> sentiment_hashingSearch_hash(p, 0, 0, Len(p)),
          textHash |-> sentiment_hashingSearch_hash(t, 0, 0, Len(p)),
          h |-> sentiment_hashingSearch_h(1, 0, Len(p)), matches |-> <<>>]

sentiment_hashingSearch_loop(f, t, p) ==
    IF f.i <= Len(t) - Len(p)
    THEN LET rolled == JsRem(base * (f.textHash - At(t, f.i) * f.h)
                             + At(t, f.i + Len(p)), prime)
         IN  [f EXCEPT
                !.matches = IF f.patternHash = f.textHash
                               /\ sentiment_hashingSearch_verify(t, p, f.i, 0)
                            THEN Append(@, f.i) ELSE @,
                !.textHash = IF f.i < Len(t) - Len(p)
                             THEN (IF rolled < 0 THEN rolled + prime ELSE rolled)
                             ELSE @,
                !.i = @ + 1]
    ELSE [f EXCEPT !.pc = "done"]

RECURSIVE sentiment_horspoolSearch_shiftTable(_, _, _)
sentiment_horspoolSearch_shiftTable(p, shiftTable, i) ==
    IF i < Len(p) - 1
    THEN sentiment_horspoolSearch_shiftTable(
             p, Put(shiftTable, At(p, i), Len(p) - 1 - i), i + 1)
    ELSE shiftTable

RECURSIVE sentiment_horspoolSearch_inner(_, _, _, _)
sentiment_horspoolSearch_inner(t, p, i, j) ==
    IF j >= 0 /\ At(t, i + j) = At(p, j)
    THEN sentiment_horspoolSearch_inner(t, p, i, j - 1)
    ELSE j

sentiment_horspoolSearch_call(t, p) ==
    IF Len(p) = 0 \/ Len(t) = 0 \/ Len(p) > Len(t)
    THEN [fn |-> "sentiment.horspoolSearch", pc |-> "done", i |-> 0,
          shiftTable |-> <<>>, matches |-> <<>>]
    ELSE [fn |-> "sentiment.horspoolSearch", pc |-> "loop", i |-> 0,
          shiftTable |-> sentiment_horspoolSearch_shiftTable(p, <<>>, 0),
          matches |-> <<>>]

sentiment_horspoolSearch_loop(f, t, p) ==
    IF f.i <= Len(t) - Len(p)
    THEN IF sentiment_horspoolSearch_inner(t, p, f.i, Len(p) - 1) < 0
         THEN [f EXCEPT !.matches = Append(@, f.i), !.i = @ + 1]
         ELSE LET shift == Get(f.shiftTable, At(t, f.i + Len(p) - 1))
              IN  [f EXCEPT !.i = @ + (IF shift # undefined THEN shift ELSE Len(p))]
    ELSE [f EXCEPT !.pc = "done"]

(***************************************************************************)
(* search.js, movie search: computeLPS and kmpStringMatching               *)
(***************************************************************************)

\* String.prototype.toLowerCase on the character codes of the model.
toLowerCase(s) == [k \in 1..Len(s) |-> IF s[k] \in 65..90 THEN s[k] + 32 ELSE s[k]]

\* One iteration of the while loop of computeLPS (i < m).
search_computeLPS_loop(f, p) ==
    IF At(p, f.i) = At(p, f.len)
    THEN [f EXCEPT !.len = @ + 1, !.lps[f.i + 1] = f.len + 1, !.i = @ + 1]
    ELSE IF f.len # 0
         THEN [f EXCEPT !.len = At(f.lps, f.len - 1)]
         ELSE [f EXCEPT !.lps[f.i + 1] = 0, !.i = @ + 1]

search_computeLPS_call(p) ==
    [fn |-> "search.computeLPS", pc |-> "computeLPS",
     lps |-> [k \in 1..Len(p) |-> 0], len |-> 0, i |-> 1]

search_computeLPS_step(f, p) ==
    IF f.i < Len(p) THEN search_computeLPS_loop(f, p) ELSE [f EXCEPT !.pc = "done"]

search_kmpStringMatching_call(t, p) ==
    IF Len(p) = 0 \/ Len(t) = 0 \/ Len(toLowerCase(p)) > Len(toLowerCase(t))
    THEN [fn |-> "search.kmpStringMatching", pc |-> "done",
          lowerText |-> toLowerCase(t), lowerPattern |-> toLowerCase(p),
          lps |-> <<>>, len |-> 0, i |-> 0, j |-> 0, matches |-> <<>>]
    ELSE [fn |-> "search.kmpStringMatching", pc |-> "computeLPS",
          lowerText |-> toLowerCase(t), lowerPattern |-> toLowerCase(p),
          lps |-> [k \in 1..Len(p) |-> 0], len |-> 0, i |-> 1, j |-> 0,
          matches |-> <<>>]

search_kmpStringMatching_loop(f, t, p) ==
    IF f.pc = "computeLPS"
    THEN IF f.i < Len(f.lowerPattern)
         THEN search_computeLPS_loop(f, f.lowerPattern)
         ELSE [f EXCEPT !.pc = "loop", !.i = 0, !.j = 0]
    ELSE IF f.i < Len(f.lowerText)
         THEN LET hit == At(f.lowerText, f.i) = At(f.lowerPattern, f.j)
                  i1 == IF hit THEN f.i + 1 ELSE f.i
                  j1 == IF hit THEN f.j + 1 ELSE f.j
              IN  IF j1 = Len(f.lowerPattern)
                  THEN [f EXCEPT !.matches = Append(@, i1 - j1), !.i = i1,
                                 !.j = At(f.lps, j1 - 1)]
                  ELSE IF i1 < Len(f.lowerText)
                          /\ At(f.lowerText, i1) # At(f.lowerPattern, j1)
                       THEN IF j1 # 0
                            THEN [f EXCEPT !.i = i1, !.j = At(f.lps, j1 - 1)]
                            ELSE [f EXCEPT !.i = i1 + 1, !.j = j1]
                       ELSE [f EXCEPT !.i = i1, !.j = j1]
         ELSE [f EXCEPT !.pc = "done"]

(***************************************************************************)
(* Mathcing_Algorithms.cpp, the server class StringMatching (lines 11-160) *)
(***************************************************************************)

\* s[k] of a std::string for k <= size: the character, or the terminator.
\* A read at k > size or k < 0 is undefined behaviour and is not made here.
CharAt(s, k) == IF k < Len(s) THEN s[k + 1] ELSE 0

\* What a read outside a string's storage can give: 0, the value of the
\* terminator, or another byte (1 stands for every byte that is not 0).
Garbage == {0, 1}

\* int(c) * pow(101, e), converted to an integer: e is -1 for an empty string.
PowTerm(c, e) == IF e >= 0 THEN c * 101^e ELSE c \div 101^(-e)

server_computeLPS_loop(f, p) ==
    IF CharAt(p, f.i) = CharAt(p, f.len)
    THEN [f EXCEPT !.len = @ + 1, !.lps[f.i + 1] = f.len + 1, !.i = @ + 1]
    ELSE IF f.len # 0
         THEN [f EXCEPT !.len = f.lps[f.len]]
         ELSE [f EXCEPT !.lps[f.i + 1] = 0, !.i = @ + 1]

server_computeLPS_call(p) ==
    [fn |-> "server.computeLPS", pc |-> "computeLPS",
     lps |-> [k \in 1..Len(p) |-> 0], len |-> 0, i |-> 1]

server_computeLPS_step(f, p) ==
    IF f.i < Len(p) THEN server_computeLPS_loop(f, p) ELSE [f EXCEPT !.pc = "done"]

RECURSIVE server_naiveStringMatching_inner(_, _, _, _)
server_naiveStringMatching_inner(t, p, i, j) ==
    IF j < Len(p)
    THEN IF CharAt(t, i + j) # CharAt(p, j)
         THEN FALSE
         ELSE server_naiveStringMatching_inner(t, p, i, j + 1)
    ELSE TRUE

server_naiveStringMatching_call(t, p) ==
    IF Len(p) = 0 \/ Len(t) = 0
    THEN [fn |-> "server.naiveStringMatching", pc |-> "done", i |-> 0,
          found_in |-> <<>>]
    ELSE [fn |-> "server.naiveStringMatching", pc |-> "loop", i |-> 0,
          found_in |-> <<>>]

server_naiveStringMatching_loop(f, t, p) ==
    IF f.i < Len(t) /\ ~(f.i + Len(p) > Len(t))
    THEN [f EXCEPT !.found_in = IF server_naiveStringMatching_inner(t, p, f.i, 0)
                                THEN Append(@, f.i) ELSE @,
                   !.i = @ + 1]
    ELSE [f EXCEPT !.pc = "done"]

\* The sum of the loop over i = 2..size of hashing.
RECURSIVE server_hashing_sum(_, _, _)
server_hashing_sum(chars, hash, i) ==
    IF i <= Len(chars)
    THEN server_hashing_sum(
             chars, hash + PowTerm(CharAt(chars, i - 1), Len(chars) - i), i + 1)
    ELSE hash

\* hashing(chars, c, old_hash, prefix): the hash returned and the prefix left
\* in the caller's variable.  `last' is what chars[size - 1] reads: for an
\* empty chars that read is outside the string.
server_hashing(chars, c, old_hash, prefix_ref, last) ==
    IF c = 0
    THEN [hash |-> server_hashing_sum(
                       chars, PowTerm(CharAt(chars, 0), Len(chars) - 1), 2),
          prefix |-> PowTerm(CharAt(chars, 0), Len(chars) - 1)]
    ELSE [hash |-> 101 * (old_hash - prefix_ref) + last,
          prefix |-> PowTerm(CharAt(chars, 0), Len(chars) - 1)]

server_rabinKarp_call(t, p) ==
    IF Len(p) > Len(t)
    THEN [fn |-> "server.rabinKarp", pc |-> "done", prefix |-> 0,
          pattern_hash |-> 0, word_hash |-> 0, word_prefix |-> 0, start |-> 0,
          found_in |-> <<>>]
    ELSE [fn |-> "server.rabinKarp", pc |-> "loop",
          prefix |-> server_hashing(p, 0, 0, 0, 0).prefix,
          pattern_hash |-> server_hashing(p, 0, 0, 0, 0).hash,
          word_hash |-> 0, word_prefix |-> 0, start |-> 0, found_in |-> <<>>]

\* One iteration of the do-while loop; g is the value of a read outside the
\* storage of word, made when word is empty and start is not 0.
server_rabinKarp_loop(f, t, p, g) ==
    IF f.start + Len(p) > Len(t)
    THEN [f EXCEPT !.pc = "done"]
    ELSE LET word == SubSeq(t, f.start + 1, f.start + Len(p))
             last == IF Len(word) = 0 THEN g ELSE CharAt(word, Len(word) - 1)
             hashed == server_hashing(word, f.start, f.word_hash, f.word_prefix, last)
         IN  [f EXCEPT
                !.word_hash = hashed.hash,
                !.word_prefix = hashed.prefix,
                !.found_in = IF hashed.hash = f.pattern_hash /\ word = p
                             THEN Append(@, f.start) ELSE @,
                !.start = @ + 1,
                !.pc = IF f.start + 1 <= Len(t) - Len(p) THEN "loop" ELSE "done"]

\* The iteration in progress reads outside the storage of word.
server_rabinKarp_undefined(f, t, p) ==
    ~(f.start + Len(p) > Len(t)) /\ Len(p) = 0 /\ f.start # 0

server_searchKMP_call(t, p) ==
    IF Len(p) = 0
    THEN [fn |-> "server.searchKMP", pc |-> "done", lps |-> <<>>, len |-> 0,
          i |-> 0, j |-> 0, found_in |-> <<>>]
    ELSE [fn |-> "server.searchKMP", pc |-> "computeLPS",
          lps |-> [k \in 1..Len(p) |-> 0], len |-> 0, i |-> 1, j |-> 0,
          found_in |-> <<>>]

\* One iteration of the search loop (i < m, m the length of the text).
server_searchKMP_loop(f, t, p) ==
    LET hit == CharAt(t, f.i) = CharAt(p, f.j)
        i1 == IF hit THEN f.i + 1 ELSE f.i
        j1 == IF hit THEN f.j + 1 ELSE f.j
    IN  IF j1 = Len(p)
        THEN [f EXCEPT !.found_in = Append(@, i1 - j1), !.i = i1,
                       !.j = f.lps[j1]]
        ELSE IF i1 < Len(t) /\ CharAt(t, i1) # CharAt(p, j1)
             THEN IF j1 # 0
                  THEN [f EXCEPT !.i = i1, !.j = f.lps[j1]]
                  ELSE [f EXCEPT !.i = i1 + 1, !.j = j1]
             ELSE [f EXCEPT !.i = i1, !.j = j1]

server_searchKMP_step(f, t, p) ==
    IF f.pc = "computeLPS"
    THEN IF f.i < Len(p)
         THEN server_computeLPS_loop(f, p)
         ELSE [f EXCEPT !.pc = "loop", !.i = 0, !.j = 0]
    ELSE IF f.i < Len(t)
         THEN server_searchKMP_loop(f, t, p)
         ELSE [f EXCEPT !.pc = "done"]

(***************************************************************************)
(* Mathcing_Algorithms.cpp, the standalone class StringMatching            *)
(* (lines 255-442): hashing with its static prefix, and rabinKarp          *)
(***************************************************************************)

\* How many bytes past a string's terminator can be read before the read
\* leaves mapped memory.
MaxOob == 2

RECURSIVE standalone_hashing_sum(_, _, _)
standalone_hashing_sum(chars, hash, i) ==
    IF i <= Len(chars)
    THEN standalone_hashing_sum(
             chars, hash + PowTerm(CharAt(chars, i - 1), Len(chars) - i), i + 1)
    ELSE hash

\* hashing(chars, c, old_hash): the hash returned and the value left in the
\* static prefix.  `last' is what chars[size - 1] reads.
standalone_hashing(chars, c, old_hash, static_prefix, last) ==
    IF c = 0
    THEN [hash |-> standalone_hashing_sum(
                       chars, PowTerm(CharAt(chars, 0), Len(chars) - 1), 2),
          prefix |-> PowTerm(CharAt(chars, 0), Len(chars) - 1)]
    ELSE [hash |-> 101 * (old_hash - static_prefix) + last,
          prefix |-> PowTerm(CharAt(chars, 0), Len(chars) - 1)]

standalone_rabinKarp_call(t, p) ==
    [fn |-> "standalone.rabinKarp", pc |-> "loop",
     pattern_hash |-> standalone_hashing(p, 0, 0, 0, 0).hash,
     word_hash |-> 0, start |-> 0, found_in |-> <<>>]

\* text[k] as the loop that builds word reads it: a character, the terminator
\* at k = size, and past it whatever the memory holds (g).
standalone_textAt(t, k, g) ==
    IF k <= Len(t) THEN CharAt(t, k) ELSE g[k - Len(t)]

\* start <= text.length() - pattern_size in size_t: a negative difference
\* wraps to a value above every start.
standalone_continue(start, t, p) ==
    IF Len(t) - Len(p) < 0 THEN TRUE ELSE start <= Len(t) - Len(p)

\* The iteration in progress reads outside the storage of text or of word,
\* and reads further than MaxOob bytes past the terminator of text.
standalone_rabinKarp_undefined(f, t, p) ==
    \/ f.start + Len(p) - 1 > Len(t)
    \/ Len(p) = 0 /\ f.start # 0

standalone_rabinKarp_unmapped(f, t, p) ==
    f.start + Len(p) - 1 > Len(t) + MaxOob

\* One iteration of the do-while loop: the frame and the static prefix after.
standalone_rabinKarp_loop(f, static_prefix, t, p, g) ==
    LET word == [k \in 1..Len(p) |-> standalone_textAt(t, f.start + k - 1, g)]
        last == IF Len(word) = 0 THEN g[1] ELSE word[Len(word)]
        hashed == standalone_hashing(word, f.start, f.word_hash, static_prefix, last)
    IN  [frame |-> [f EXCEPT
                      !.word_hash = hashed.hash,
                      !.found_in = IF hashed.hash = f.pattern_hash /\ word = p
                                   THEN Append(@, f.start) ELSE @,
                      !.start = @ + 1,
                      !.pc = IF standalone_continue(f.start + 1, t, p)
                             THEN "loop" ELSE "done"],
         prefix |-> hashed.prefix]

(***************************************************************************)
(* The standalone C++ program: horspoolHelper and horspool                 *)
(***************************************************************************)

\* The loop of horspoolHelper: every position but the last stores
\* len - i - 1; the last position stores len when its character has no
\* entry yet.
RECURSIVE standalone_horspoolHelper_loop(_, _, _)
standalone_horspoolHelper_loop(p, values, i) ==
    IF i < Len(p)
    THEN IF i = Len(p) - 1
         THEN IF CharAt(p, i) \notin DOMAIN values
              THEN standalone_horspoolHelper_loop(
                       p, Put(values, CharAt(p, i), Len(p)), i + 1)
              ELSE standalone_horspoolHelper_loop(p, values, i + 1)
         ELSE standalone_horspoolHelper_loop(
                  p, Put(values, CharAt(p, i), Len(p) - i - 1), i + 1)
    ELSE values

standalone_horspoolHelper(p) == standalone_horspoolHelper_loop(p, <<>>, 0)

\* The for loop of horspool: the first j at which the pattern, read from its
\* end, differs from the text read back from i; the pattern length if none.
RECURSIVE standalone_horspool_inner(_, _, _, _)
standalone_horspool_inner(t, p, i, j) ==
    IF j < Len(p)
    THEN IF CharAt(p, Len(p) - 1 - j) # CharAt(t, i - j)
         THEN j
         ELSE standalone_horspool_inner(t, p, i, j + 1)
    ELSE Len(p)

standalone_horspool_call(t, p) ==
    [fn |-> "standalone.horspool", pc |-> "loop", i |-> Len(p) - 1,
     values |-> standalone_horspoolHelper(p), found_in |-> <<>>]

\* i < text.length() compares in size_t: i = -1 (empty pattern) converts to
\* the largest value and the loop is not entered.
standalone_horspool_continue(i, t) == i >= 0 /\ i < Len(t)

standalone_horspool_loop(f, t, p) ==
    IF standalone_horspool_continue(f.i, t)
    THEN IF standalone_horspool_inner(t, p, f.i, 0) < Len(p)
         THEN IF CharAt(t, f.i) \notin DOMAIN f.values
              THEN [f EXCEPT !.i = @ + Len(p)]
              ELSE [f EXCEPT !.i = @ + f.values[CharAt(t, f.i)]]
         ELSE [f EXCEPT !.found_in = Append(@, f.i - (Len(p) - 1)), !.i = @ + 1]
    ELSE [f EXCEPT !.pc = "done"]

(***************************************************************************)
(* The standalone C++ program: the pointer-based naiveStringMatching       *)
(***************************************************************************)

\* ptr_s and ptr_f are kept as the offsets they point at in text and in
\* pattern.
standalone_naiveStringMatching_call(t, p) ==
    [fn |-> "standalone.naiveStringMatching", pc |-> "loop", i |-> 0,
     ptr_s |-> 0, ptr_f |-> 0, found_in |-> <<>>]

\* One iteration of the for loop (i < text.size()), or its exit.
standalone_naiveStringMatching_loop(f, t, p) ==
    IF f.i < Len(t)
    THEN IF CharAt(t, f.ptr_s) = CharAt(p, f.ptr_f)
         THEN IF f.ptr_f = Len(p) - 1
              THEN [f EXCEPT !.found_in = Append(@, f.i - (Len(p) - 1)),
                             !.ptr_s = @ + 1, !.ptr_f = 0, !.i = @ + 1]
              ELSE [f EXCEPT !.ptr_s = @ + 1, !.ptr_f = @ + 1, !.i = @ + 1]
         ELSE [f EXCEPT !.ptr_s = @ + 1, !.ptr_f = 0, !.i = @ + 1]
    ELSE [f EXCEPT !.pc = "done"]

(***************************************************************************)
(* script.js, Algorithm Tester: the indices a step reads.  For an          *)
(* activation record f about to take a step, the indices at which the step *)
(* reads the text, the pattern and the LPS table, by the expressions of    *)
(* the source in the order the step evaluates them.                        *)
(***************************************************************************)

NoReads == [text |-> {}, pattern |-> {}, lps |-> {}]

\* The j of the reads text[i + j] and pattern[j] of a left to right
\* comparison that stops at the first difference (naiveStringMatching and
\* the verification of rabinKarpStringMatching).
RECURSIVE compare_reads(_, _, _, _)
compare_reads(t, p, i, j) ==
    IF j < Len(p)
    THEN {j} \cup (IF At(t, i + j) # At(p, j) THEN {} ELSE compare_reads(t, p, i, j + 1))
    ELSE {}

naiveStringMatching_reads(f, t, p) ==
    IF f.pc = "loop" /\ f.i <= Len(t) - Len(p)
    THEN LET js == compare_reads(t, p, f.i, 0)
         IN  [text |-> {f.i + j : j \in js}, pattern |-> js, lps |-> {}]
    ELSE NoReads

\* pattern[i] === pattern[len], and lps[len - 1] on a mismatch with len # 0.
computeLPS_reads(f, p) ==
    IF f.pc = "computeLPS" /\ f.i < Len(p)
    THEN [text |-> {}, pattern |-> {f.i, f.len},
          lps |-> IF At(p, f.i) # At(p, f.len) /\ f.len # 0
                  THEN {f.len - 1} ELSE {}]
    ELSE NoReads

\* text[i] === pattern[j]; then lps[j - 1] after a match, or text[i] !==
\* pattern[j] when i < n, and lps[j - 1] when they differ and j # 0.
kmpStringMatching_reads(f, t, p) ==
    IF f.pc = "computeLPS"
    THEN computeLPS_reads(f, p)
    ELSE IF f.pc = "loop" /\ f.i < Len(t)
    THEN LET hit == At(t, f.i) = At(p, f.j)
             i1 == IF hit THEN f.i + 1 ELSE f.i
             j1 == IF hit THEN f.j + 1 ELSE f.j
         IN  IF j1 = Len(p)
             THEN [text |-> {f.i}, pattern |-> {f.j}, lps |-> {j1 - 1}]
             ELSE IF i1 < Len(t)
                  THEN [text |-> {f.i, i1}, pattern |-> {f.j, j1},
                        lps |-> IF At(t, i1) # At(p, j1) /\ j1 # 0
                                THEN {j1 - 1} ELSE {}]
                  ELSE [text |-> {f.i}, pattern |-> {f.j}, lps |-> {}]
    ELSE NoReads

\* The loop of the initial hashes: pattern.charCodeAt(i) and
\* text.charCodeAt(i) for i < m.
rabinKarpStringMatching_call_reads(t, p) ==
    IF Len(p) = 0 \/ Len(t) = 0 \/ Len(p) > Len(t)
    THEN NoReads
    ELSE [text |-> 0..(Len(p) - 1), pattern |-> 0..(Len(p) - 1), lps |-> {}]

\* The verification when the hashes are equal, and text.charCodeAt(i) and
\* text.charCodeAt(i + m) of the roll when i < n - m.
rabinKarpStringMatching_reads(f, t, p) ==
    IF f.pc = "loop" /\ f.i <= Len(t) - Len(p)
    THEN LET js == IF f.patternHash = f.textHash
                   THEN compare_reads(t, p, f.i, 0) ELSE {}
         IN  [text |-> {f.i + j : j \in js}
                          \cup (IF f.i < Len(t) - Len(p)
                                THEN {f.i, f.i + Len(p)} ELSE {}),
              pattern |-> js, lps |-> {}]
    ELSE NoReads

\* The loop of the shift table: pattern[i] for i < m - 1.
horspoolStringMatching_call_reads(t, p) ==
    IF Len(p) = 0 \/ Len(t) = 0 \/ Len(p) > Len(t)
    THEN NoReads
    ELSE [text |-> {}, pattern |-> 0..(Len(p) - 2), lps |-> {}]

\* The j of the reads text[i + j] and pattern[j] of the right to left
\* comparison (j >= 0 && text[i + j] === pattern[j]).
RECURSIVE horspool_inner_reads(_, _, _, _)
horspool_inner_reads(t, p, i, j) ==
    IF j >= 0
    THEN {j} \cup (IF At(t, i + j) = At(p, j)
                   THEN horspool_inner_reads(t, p, i, j - 1) ELSE {})
    ELSE {}

\* The comparison, and text[i + m - 1] when it stopped at a difference.
horspoolStringMatching_reads(f, t, p) ==
    IF f.pc = "loop" /\ f.i <= Len(t) - Len(p)
    THEN LET js == horspool_inner_reads(t, p, f.i, Len(p) - 1)
         IN  [text |-> {f.i + j : j \in js}
                          \cup (IF horspool_inner(t, p, f.i, Len(p) - 1) < 0
                                THEN {} ELSE {f.i + Len(p) - 1}),
              pattern |-> js, lps |-> {}]
    ELSE NoReads

\* The reads of the step the call in progress takes next.
Reads(f, t, p) ==
    CASE f.fn = "naiveStringMatching" -> naiveStringMatching_reads(f, t, p)
      [] f.fn = "computeLPS" -> computeLPS_reads(f, p)
      [] f.fn = "kmpStringMatching" -> kmpStringMatching_reads(f, t, p)
      [] f.fn = "rabinKarpStringMatching" -> rabinKarpStringMatching_reads(f, t, p)
      [] f.fn = "horspoolStringMatching" -> horspoolStringMatching_reads(f, t, p)
      [] OTHER -> NoReads

(***************************************************************************)
(* A matcher call run to its return                                        *)
(***************************************************************************)

Step(f, t, p) ==
    CASE f.fn = "naiveStringMatching" -> naiveStringMatching_loop(f, t, p)
      [] f.fn = "computeLPS" -> computeLPS_step(f, p)
      [] f.fn = "kmpStringMatching" -> kmpStringMatching_step(f, t, p)
      [] f.fn = "rabinKarpStringMatching" -> rabinKarpStringMatching_loop(f, t, p)
      [] f.fn = "horspoolStringMatching" -> horspoolStringMatching_loop(f, t, p)
      [] f.fn = "script.naiveSearch" -> script_naiveSearch_loop(f, t, p)
      [] f.fn = "script.horspoolSearch" -> script_horspoolSearch_loop(f, t, p)
      [] f.fn = "script.kmpSearch" -> script_kmpSearch_loop(f, t, p)
      [] f.fn = "script.hashingSearch" -> script_hashingSearch_loop(f, t, p)
      [] f.fn = "sentiment.naiveSearch" -> sentiment_naiveSearch_loop(f, t, p)
      [] f.fn = "sentiment.kmpSearch" -> sentiment_kmpSearch_loop(f, t, p)
      [] f.fn = "sentiment.hashingSearch" -> sentiment_hashingSearch_loop(f, t, p)
      [] f.fn = "sentiment.horspoolSearch" -> sentiment_horspoolSearch_loop(f, t, p)
      [] f.fn = "search.computeLPS" -> search_computeLPS_step(f, p)
      [] f.fn = "search.kmpStringMatching" -> search_kmpStringMatching_loop(f, t, p)
      [] f.fn = "server.naiveStringMatching" -> server_naiveStringMatching_loop(f, t, p)
      [] f.fn = "server.computeLPS" -> server_computeLPS_step(f, p)
      [] f.fn = "server.searchKMP" -> server_searchKMP_step(f, t, p)

RECURSIVE Run(_, _, _)
Run(f, t, p) == IF f.pc = "done" THEN f ELSE Run(Step(f, t, p), t, p)

\* The offsets a finished call returns.
Returned(f) == IF "found_in" \in DOMAIN f THEN f.found_in ELSE f.matches

naiveStringMatching(t, p) == Run(naiveStringMatching_call(t, p), t, p).matches
computeLPS(p) == Run(computeLPS_call(p), <<>>, p).lps
kmpStringMatching(t, p) == Run(kmpStringMatching_call(t, p), t, p).matches
rabinKarpStringMatching(t, p) == Run(rabinKarpStringMatching_call(t, p), t, p).matches
horspoolStringMatching(t, p) == Run(horspoolStringMatching_call(t, p), t, p).matches

(***************************************************************************)
(* The programs as a state machine                                         *)
(***************************************************************************)

\* The tags the algorithm selectors can send, and one they do not know.
Tags == {"naive", "kmp", "hashing", "horspool", "boyer-moore"}

Tester == {"naiveStringMatching", "kmpStringMatching",
           "rabinKarpStringMatching", "horspoolStringMatching"}

Init ==
    /\ text \in Strings(Alphabet, MaxText)
    /\ pattern \in Strings(Alphabet, MaxPat)
    /\ algorithm = ""
    /\ frame = Idle
    /\ prefix = 0

\* script.js: performStringMatching(text, pattern, alg) is called and calls
\* its matcher.
PerformStringMatching(alg) ==
    /\ frame.pc = "idle"
    /\ algorithm' = alg
    /\ frame' = performStringMatching_call(text, pattern, alg)
    /\ UNCHANGED <<text, pattern, prefix>>

\* One iteration of the loop of the matcher in progress, or the loop's exit.
NaiveLoop ==
    /\ frame.fn = "naiveStringMatching" /\ frame.pc = "loop"
    /\ frame' = naiveStringMatching_loop(frame, text, pattern)
    /\ UNCHANGED <<text, pattern, algorithm, prefix>>

ComputeLPSLoop ==
    /\ frame.fn = "kmpStringMatching" /\ frame.pc = "computeLPS"
    /\ frame' = kmpStringMatching_step(frame, text, pattern)
    /\ UNCHANGED <<text, pattern, algorithm, prefix>>

KmpLoop ==
    /\ frame.fn = "kmpStringMatching" /\ frame.pc = "loop"
    /\ frame' = kmpStringMatching_step(frame, text, pattern)
    /\ UNCHANGED <<text, pattern, algorithm, prefix>>

RabinKarpLoop ==
    /\ frame.fn = "rabinKarpStringMatching" /\ frame.pc = "loop"
    /\ frame' = rabinKarpStringMatching_loop(frame, text, pattern)
    /\ UNCHANGED <<text, pattern, algorithm, prefix>>

HorspoolLoop ==
    /\ frame.fn = "horspoolStringMatching" /\ frame.pc = "loop"
    /\ frame' = horspoolStringMatching_loop(frame, text, pattern)
    /\ UNCHANGED <<text, pattern, algorithm, prefix>>

\* The matcher has returned: performStringMatching builds what it returns.
PerformStringMatchingReturn ==
    /\ frame.fn \in Tester /\ frame.pc = "done"
    /\ frame' = performStringMatching_return(frame.matches, text, pattern, algorithm)
    /\ UNCHANGED <<text, pattern, algorithm, prefix>>

\* script.js, keyword-list code: findMatches(text, pattern, alg), whole.
FindMatches(alg) ==
    /\ frame.pc = "idle"
    /\ algorithm' = alg
    /\ frame' = Run(script_findMatches_call(text, pattern, alg), text, pattern)
    /\ UNCHANGED <<text, pattern, prefix>>

\* sentiment.js: one call of a matcher, whole.
SentimentNaiveSearch ==
    /\ frame.pc = "idle"
    /\ frame' = Run(sentiment_naiveSearch_call(text, pattern), text, pattern)
    /\ UNCHANGED <<text, pattern, algorithm, prefix>>

SentimentKmpSearch ==
    /\ frame.pc = "idle"
    /\ frame' = Run(sentiment_kmpSearch_call(text, pattern), text, pattern)
    /\ UNCHANGED <<text, pattern, algorithm, prefix>>

SentimentHashingSearch ==
    /\ frame.pc = "idle"
    /\ frame' = Run(sentiment_hashingSearch_call(text, pattern), text, pattern)
    /\ UNCHANGED <<text, pattern, algorithm, prefix>>

SentimentHorspoolSearch ==
    /\ frame.pc = "idle"
    /\ frame' = Run(sentiment_horspoolSearch_call(text, pattern), text, pattern)
    /\ UNCHANGED <<text, pattern, algorithm, prefix>>

\* search.js: one call of kmpStringMatching, whole.
SearchKmpStringMatching ==
    /\ frame.pc = "idle"
    /\ frame' = Run(search_kmpStringMatching_call(text, pattern), text, pattern)
    /\ UNCHANGED <<text, pattern, algorithm, prefix>>

\* The C++ server: one call of naiveStringMatching, whole.
ServerNaiveStringMatching ==
    /\ frame.pc = "idle"
    /\ frame' = Run(server_naiveStringMatching_call(text, pattern), text, pattern)
    /\ UNCHANGED <<text, pattern, algorithm, prefix>>

\* The C++ server: searchKMP is called; then one loop iteration a step.
ServerSearchKMP ==
    /\ frame.pc = "idle"
    /\ frame' = server_searchKMP_call(text, pattern)
    /\ UNCHANGED <<text, pattern, algorithm, prefix>>

ServerSearchKMPLoop ==
    /\ frame.fn = "server.searchKMP" /\ frame.pc \in {"computeLPS", "loop"}
    /\ frame' = server_searchKMP_step(frame, text, pattern)
    /\ UNCHANGED <<text, pattern, algorithm, prefix>>

\* The C++ server: rabinKarp is called; then one loop iteration a step.  An
\* iteration that reads outside a string reads any value, or faults.
ServerRabinKarp ==
    /\ frame.pc = "idle"
    /\ frame' = server_rabinKarp_call(text, pattern)
    /\ UNCHANGED <<text, pattern, algorithm, prefix>>

ServerRabinKarpLoop ==
    /\ frame.fn = "server.rabinKarp" /\ frame.pc = "loop"
    /\ \E g \in Garbage : frame' = server_rabinKarp_loop(frame, text, pattern, g)
    /\ UNCHANGED <<text, pattern, algorithm, prefix>>

ServerRabinKarpFault ==
    /\ frame.fn = "server.rabinKarp" /\ frame.pc = "loop"
    /\ server_rabinKarp_undefined(frame, text, pattern)
    /\ frame' = [frame EXCEPT !.pc = "crashed"]
    /\ UNCHANGED <<text, pattern, algorithm, prefix>>

\* The caller has taken what the call returned.
Return ==
    /\ frame.pc \in {"done", "returned"}
    /\ frame.fn \notin Tester
    /\ frame' = Idle
    /\ algorithm' = ""
    /\ UNCHANGED <<text, pattern, prefix>>

Next ==
    \/ \E alg \in Tags : PerformStringMatching(alg)
    \/ NaiveLoop
    \/ ComputeLPSLoop
    \/ KmpLoop
    \/ RabinKarpLoop
    \/ HorspoolLoop
    \/ PerformStringMatchingReturn
    \/ \E alg \in Tags : FindMatches(alg)
    \/ SentimentNaiveSearch
    \/ SentimentKmpSearch
    \/ SentimentHashingSearch
    \/ SentimentHorspoolSearch
    \/ SearchKmpStringMatching
    \/ ServerNaiveStringMatching
    \/ ServerSearchKMP
    \/ ServerSearchKMPLoop
    \/ ServerRabinKarp
    \/ ServerRabinKarpLoop
    \/ ServerRabinKarpFault
    \/ Return

Spec == Init /\ [][Next]_vars

(***************************************************************************)
(* The standalone C++ program                                              *)
(***************************************************************************)

StandaloneRabinKarp ==
    /\ frame.pc = "idle"
    /\ frame' = standalone_rabinKarp_call(text, pattern)
    /\ prefix' = standalone_hashing(pattern, 0, 0, prefix, 0).prefix
    /\ UNCHANGED <<text, pattern, algorithm>>

StandaloneRabinKarpLoop ==
    /\ frame.fn = "standalone.rabinKarp" /\ frame.pc = "loop"
    /\ ~standalone_rabinKarp_unmapped(frame, text, pattern)
    /\ \E g \in [1..MaxOob -> Garbage] :
          LET after == standalone_rabinKarp_loop(frame, prefix, text, pattern, g)
          IN  frame' = after.frame /\ prefix' = after.prefix
    /\ UNCHANGED <<text, pattern, algorithm>>

StandaloneRabinKarpFault ==
    /\ frame.fn = "standalone.rabinKarp" /\ frame.pc = "loop"
    /\ standalone_rabinKarp_undefined(frame, text, pattern)
    /\ frame' = [frame EXCEPT !.pc = "crashed"]
    /\ UNCHANGED <<text, pattern, algorithm, prefix>>

StandaloneHorspool ==
    /\ frame.pc = "idle"
    /\ frame' = standalone_horspool_call(text, pattern)
    /\ UNCHANGED <<text, pattern, algorithm, prefix>>

StandaloneHorspoolLoop ==
    /\ frame.fn = "standalone.horspool" /\ frame.pc = "loop"
    /\ frame' = standalone_horspool_loop(frame, text, pattern)
    /\ UNCHANGED <<text, pattern, algorithm, prefix>>

StandaloneNaiveStringMatching ==
    /\ frame.pc = "idle"
    /\ frame' = standalone_naiveStringMatching_call(text, pattern)
    /\ UNCHANGED <<text, pattern, algorithm, prefix>>

StandaloneNaiveStringMatchingLoop ==
    /\ frame.fn = "standalone.naiveStringMatching" /\ frame.pc = "loop"
    /\ frame' = standalone_naiveStringMatching_loop(frame, text, pattern)
    /\ UNCHANGED <<text, pattern, algorithm, prefix>>

StandaloneReturn ==
    /\ frame.fn \in {"standalone.rabinKarp", "standalone.horspool",
                    "standalone.naiveStringMatching"}
    /\ frame.pc = "done"
    /\ frame' = Idle
    /\ UNCHANGED <<text, pattern, algorithm, prefix>>

NextStandalone ==
    \/ StandaloneRabinKarp
    \/ StandaloneRabinKarpLoop
    \/ StandaloneRabinKarpFault
    \/ StandaloneHorspool
    \/ StandaloneHorspoolLoop
    \/ StandaloneNaiveStringMatching
    \/ StandaloneNaiveStringMatchingLoop
    \/ StandaloneReturn

SpecStandalone == Init /\ [][NextStandalone]_vars

(***************************************************************************)
(* computeLPS of script.js, search.js and the C++ server alone, on longer   *)
(* patterns                                                                *)
(***************************************************************************)

InitLPS ==
    /\ text = <<>>
    /\ pattern \in Strings(LpsAlphabet, MaxLps)
    /\ algorithm = ""
    /\ frame \in {computeLPS_call(pattern), search_computeLPS_call(pattern),
                  server_computeLPS_call(pattern)}
    /\ prefix = 0

ComputeLPSAlone ==
    /\ frame.fn = "computeLPS" /\ frame.pc = "computeLPS"
    /\ frame' = computeLPS_step(frame, pattern)
    /\ UNCHANGED <<text, pattern, algorithm, prefix>>

SearchComputeLPSAlone ==
    /\ frame.fn = "search.computeLPS" /\ frame.pc = "computeLPS"
    /\ frame' = search_computeLPS_step(frame, pattern)
    /\ UNCHANGED <<text, pattern, algorithm, prefix>>

ServerComputeLPSAlone ==
    /\ frame.fn = "server.computeLPS" /\ frame.pc = "computeLPS"
    /\ frame' = server_computeLPS_step(frame, pattern)
    /\ UNCHANGED <<text, pattern, algorithm, prefix>>

NextLPS ==
    \/ ComputeLPSAlone
    \/ SearchComputeLPSAlone
    \/ ServerComputeLPSAlone

SpecLPS == InitLPS /\ [][NextLPS]_vars

(***************************************************************************)
(* Two requests served at the same time (Crow runs multithreaded): two     *)
(* rabinKarp calls of the server class, each on its own thread.  `frame'   *)
(* holds both calls; a step is one thread's call or one iteration of its   *)
(* do-while loop.  The calls are on the same text.                         *)
(***************************************************************************)

ThreadAlphabet == {97, 111}

Threads == {1, 2}

NotCalled == [fn |-> "idle", pc |-> "idle"]

InitThreads ==
    /\ text \in Strings(ThreadAlphabet, MaxText)
    /\ pattern \in Strings(ThreadAlphabet, MaxPat)
    /\ algorithm = ""
    /\ \E p2 \in Strings(ThreadAlphabet, MaxPat) :
          frame = [fn |-> "threads", pc |-> "threads",
                   pattern |-> <<pattern, p2>>,
                   thread |-> <<NotCalled, NotCalled>>]
    /\ prefix = 0

ThreadServerRabinKarp(k) ==
    /\ frame.thread[k].pc = "idle"
    /\ frame' = [frame EXCEPT
                   !.thread[k] = server_rabinKarp_call(text, frame.pattern[k])]
    /\ UNCHANGED <<text, pattern, algorithm, prefix>>

\* Faulty variant of ThreadServerRabinKarpLoop: the prefix hashing works on is
\* one variable of both calls, holding what the last hashing call left.
ThreadServerRabinKarpLoop_shared(k) ==
    /\ frame.thread[k].fn = "server.rabinKarp" /\ frame.thread[k].pc = "loop"
    /\ \E g \in Garbage :
          LET f == [frame.thread[k] EXCEPT !.word_prefix = prefix]
              after == server_rabinKarp_loop(f, text, frame.pattern[k], g)
          IN  /\ frame' = [frame EXCEPT !.thread[k] = after]
              /\ prefix' = after.word_prefix
    /\ UNCHANGED <<text, pattern, algorithm>>

ThreadServerRabinKarpLoop(k) ==
    /\ frame.thread[k].fn = "server.rabinKarp" /\ frame.thread[k].pc = "loop"
    /\ \E g \in Garbage :
          frame' = [frame EXCEPT
                      !.thread[k] = server_rabinKarp_loop(
                                        frame.thread[k], text, frame.pattern[k], g)]
    /\ UNCHANGED <<text, pattern, algorithm, prefix>>

ThreadServerRabinKarpFault(k) ==
    /\ frame.thread[k].fn = "server.rabinKarp" /\ frame.thread[k].pc = "loop"
    /\ server_rabinKarp_undefined(frame.thread[k], text, frame.pattern[k])
    /\ frame' = [frame EXCEPT !.thread[k].pc = "crashed"]
    /\ UNCHANGED <<text, pattern, algorithm, prefix>>

NextServerThreads ==
    \E k \in Threads :
        \/ ThreadServerRabinKarp(k)
        \/ ThreadServerRabinKarpLoop(k)
        \/ ThreadServerRabinKarpFault(k)

SpecServerThreads == InitThreads /\ [][NextServerThreads]_vars

\* The vectors a rabinKarp call of the server class can return when it runs
\* alone, one for every outcome of the reads outside a string.
RECURSIVE server_rabinKarp_runs(_, _, _)
server_rabinKarp_runs(f, t, p) ==
    IF f.pc # "loop"
    THEN {f.found_in}
    ELSE UNION {server_rabinKarp_runs(server_rabinKarp_loop(f, t, p, g), t, p) :
                  g \in Garbage}

(***************************************************************************)
(* Two rabinKarp calls of the standalone class at the same time.  hashing  *)
(* keeps prefix in a function-local static: one variable, `prefix', for    *)
(* both calls.  A step is one call's entry (which hashes the pattern) or   *)
(* one iteration of its do-while loop (which hashes one window).  The      *)
(* patterns are non-empty and no longer than the text, so that no call     *)
(* reads outside a string.                                                 *)
(***************************************************************************)

\* Two characters with small codes: a hash rolled with another call's prefix
\* grows by a factor of 101 at every window, and a long long holds it; small
\* codes keep it within the integers TLC computes with.
StaticAlphabet == {1, 2}

InitStandaloneThreads ==
    /\ text \in Strings(StaticAlphabet, MaxText)
    /\ pattern \in Strings(StaticAlphabet, MaxPat)
    /\ algorithm = ""
    /\ \E p2 \in Strings(StaticAlphabet, MaxPat) :
          /\ 1 <= Len(pattern) /\ Len(pattern) <= Len(text)
          /\ 1 <= Len(p2) /\ Len(p2) <= Len(text)
          /\ frame = [fn |-> "threads", pc |-> "threads",
                      pattern |-> <<pattern, p2>>,
                      thread |-> <<NotCalled, NotCalled>>]
    /\ prefix = 0

\* No read is outside a string here: the bytes past the text are not read.
NoOob == [k \in 1..MaxOob |-> 0]

ThreadStandaloneRabinKarp(k) ==
    /\ frame.thread[k].pc = "idle"
    /\ frame' = [frame EXCEPT
                   !.thread[k] = standalone_rabinKarp_call(text, frame.pattern[k])]
    /\ prefix' = standalone_hashing(frame.pattern[k], 0, 0, prefix, 0).prefix
    /\ UNCHANGED <<text, pattern, algorithm>>

ThreadStandaloneRabinKarpLoop(k) ==
    /\ frame.thread[k].fn = "standalone.rabinKarp"
    /\ frame.thread[k].pc = "loop"
    /\ LET after == standalone_rabinKarp_loop(
                        frame.thread[k], prefix, text, frame.pattern[k], NoOob)
       IN  /\ frame' = [frame EXCEPT !.thread[k] = after.frame]
           /\ prefix' = after.prefix
    /\ UNCHANGED <<text, pattern, algorithm>>

NextStandaloneThreads ==
    \E k \in Threads :
        \/ ThreadStandaloneRabinKarp(k)
        \/ ThreadStandaloneRabinKarpLoop(k)

SpecStandaloneThreads == InitStandaloneThreads /\ [][NextStandaloneThreads]_vars

\* A rabinKarp call of the standalone class run alone to its return.
RECURSIVE standalone_rabinKarp_run(_, _, _, _)
standalone_rabinKarp_run(f, static_prefix, t, p) ==
    IF f.pc # "loop"
    THEN f
    ELSE LET after == standalone_rabinKarp_loop(f, static_prefix, t, p, NoOob)
         IN  standalone_rabinKarp_run(after.frame, after.prefix, t, p)

standalone_rabinKarp(t, p) ==
    standalone_rabinKarp_run(
        standalone_rabinKarp_call(t, p),
        standalone_hashing(p, 0, 0, 0, 0).prefix, t, p).found_in

(***************************************************************************)
(* sentiment.js: findMatches, the selected matcher and the word boundary   *)
(* filter, on text of " ", "-", "_" and "a"                                *)
(***************************************************************************)

\* The switch of findMatches: the matcher it calls.
sentiment_findMatches_call(t, p, alg) ==
    CASE alg = "naive" -> sentiment_naiveSearch_call(t, p)
      [] alg = "horspool" -> sentiment_horspoolSearch_call(t, p)
      [] alg = "kmp" -> sentiment_kmpSearch_call(t, p)
      [] alg = "hashing" -> sentiment_hashingSearch_call(t, p)
      [] OTHER -> sentiment_naiveSearch_call(t, p)

\* The characters \s of a regular expression matches.
WhiteSpace ==
    {9, 10, 11, 12, 13, 32, 160, 5760, 8232, 8233, 8239, 8287, 12288, 65279}
        \cup (8192..8202)

\* /[\s.,!?;:'"()\[\]{}\-]/.test(c) for a character c.
sentiment_findMatches_test(c) ==
    c \in WhiteSpace \cup {46, 44, 33, 63, 59, 58, 39, 34, 40, 41, 91, 93, 123, 125, 45}

\* Faulty variant of sentiment_findMatches_filter: only the character before the
\* match is tested.
sentiment_findMatches_filter_before(rawMatches, t, p) ==
    LET isWordBoundary(pos) ==
            LET charBefore == IF pos > 0 THEN At(t, pos - 1) ELSE 32
            IN  sentiment_findMatches_test(charBefore)
    IN  SelectSeq(rawMatches, isWordBoundary)

\* rawMatches.filter(pos => ...): charBefore and charAfter are " " at the
\* ends of the text.
sentiment_findMatches_filter(rawMatches, t, p) ==
    LET isWordBoundary(pos) ==
            LET charBefore == IF pos > 0 THEN At(t, pos - 1) ELSE 32
                charAfter == IF pos + Len(p) < Len(t) THEN At(t, pos + Len(p)) ELSE 32
            IN  sentiment_findMatches_test(charBefore)
                   /\ sentiment_findMatches_test(charAfter)
    IN  SelectSeq(rawMatches, isWordBoundary)

sentiment_findMatches(t, p, alg) ==
    LET rawMatches == Run(sentiment_findMatches_call(t, p, alg), t, p).matches
    IN  [fn |-> "sentiment.findMatches", pc |-> "done", rawMatches |-> rawMatches,
         matches |-> sentiment_findMatches_filter(rawMatches, t, p)]

SentimentAlphabet == {32, 45, 95, 97}

InitSentiment ==
    /\ text \in Strings(SentimentAlphabet, MaxText)
    /\ pattern \in Strings(SentimentAlphabet, MaxPat)
    /\ algorithm = ""
    /\ frame = Idle
    /\ prefix = 0

\* findMatches(text, pattern, alg), whole.
SentimentFindMatches(alg) ==
    /\ frame.pc = "idle"
    /\ algorithm' = alg
    /\ frame' = sentiment_findMatches(text, pattern, alg)
    /\ UNCHANGED <<text, pattern, prefix>>

NextSentiment ==
    \/ \E alg \in Tags : SentimentFindMatches(alg)
    \/ Return

SpecSentiment == InitSentiment /\ [][NextSentiment]_vars

(***************************************************************************)
(* The movie search of search.js, on text in both cases: "H", "e", "h"     *)
(***************************************************************************)

CaseAlphabet == {72, 101, 104}

InitSearch ==
    /\ text \in Strings(CaseAlphabet, MaxText)
    /\ pattern \in Strings(CaseAlphabet, MaxPat)
    /\ algorithm = ""
    /\ frame = Idle
    /\ prefix = 0

NextSearch ==
    \/ SearchKmpStringMatching
    \/ Return

SpecSearch == InitSearch /\ [][NextSearch]_vars

(***************************************************************************)
(* search.js: searchMovies.  `frame' is the page: moviesData and           *)
(* dataLoaded, the queries of the timers searchMovies has set and that     *)
(* have not fired, and what the page shows; `pattern' is searchInput.value.*)
(* A movie is a row of the movie table: id, title and popularity, the      *)
(* popularity as the text of its field.                                    *)
(***************************************************************************)

\* Bounds: the rows of the movie table, and the timers pending at a time.
MaxMovies == 3
MaxPending == 2

\* Titles "", "He", "h"; popularity fields "" and "2"; queries "", " ", "h"
\* and "he".
Titles == {<<>>, <<72, 101>>, <<104>>}
Popularities == {<<>>, <<50>>}
Queries == {<<>>, <<32>>, <<104>>, <<104, 101>>}

\* The movie tables: row k has id k.
MovieTables ==
    UNION {{[k \in 1..n |-> [id |-> k, title |-> tp[k][1], popularity |-> tp[k][2]]] :
               tp \in [1..n -> Titles \X Popularities]} : n \in 0..MaxMovies}

\* !query.trim(): TRUE when only white space is left of the query.
search_trim_empty(query) == \A k \in 1..Len(query) : query[k] \in WhiteSpace

\* parseFloat(s) || 0 on a field of digits: the number its leading digits
\* spell, 0 when it has none.
RECURSIVE search_parseFloat_digits(_, _, _)
search_parseFloat_digits(s, k, value) ==
    IF k <= Len(s) /\ s[k] \in 48..57
    THEN search_parseFloat_digits(s, k + 1, 10 * value + (s[k] - 48))
    ELSE value

search_parseFloat_or_zero(s) == search_parseFloat_digits(s, 1, 0)

\* moviesData.forEach: the movieInfo of every movie whose title gives a
\* non-empty matchIndices, in the order of the table.
RECURSIVE searchMovies_forEach(_, _, _, _)
searchMovies_forEach(moviesData, query, k, matches) ==
    IF k <= Len(moviesData)
    THEN LET movie == moviesData[k]
             matchIndices ==
                 Run(search_kmpStringMatching_call(movie.title, query),
                     movie.title, query).matches
         IN  searchMovies_forEach(
                 moviesData, query, k + 1,
                 IF Len(matchIndices) > 0
                 THEN Append(matches,
                             [id |-> movie.id, title |-> movie.title,
                              popularity |-> search_parseFloat_or_zero(movie.popularity)])
                 ELSE matches)
    ELSE matches

\* Faulty variant of searchMovies_compare: a.popularity - b.popularity.
searchMovies_compare_ascending(a, b) == a.popularity - b.popularity

\* The comparator (a, b) => b.popularity - a.popularity.
searchMovies_compare(a, b) == b.popularity - a.popularity

\* Array.prototype.sort with the comparator, which is stable: an element
\* goes before the first one the comparator puts after it.
RECURSIVE searchMovies_sort_insert(_, _)
searchMovies_sort_insert(sorted, x) ==
    IF sorted = <<>>
    THEN <<x>>
    ELSE IF searchMovies_compare(Head(sorted), x) > 0
         THEN <<x>> \o sorted
         ELSE <<Head(sorted)>> \o searchMovies_sort_insert(Tail(sorted), x)

\* matches.sort((a, b) => b.popularity - a.popularity)
RECURSIVE searchMovies_sort(_)
searchMovies_sort(matches) ==
    IF matches = <<>>
    THEN <<>>
    ELSE searchMovies_sort_insert(
             searchMovies_sort(SubSeq(matches, 1, Len(matches) - 1)),
             matches[Len(matches)])

Nothing == [kind |-> "none", movies |-> <<>>, query |-> <<>>]

InitMovies ==
    /\ text = <<>>
    /\ pattern \in Queries
    /\ algorithm = ""
    /\ prefix = 0
    /\ \E moviesData \in MovieTables, dataLoaded \in BOOLEAN :
          /\ ~dataLoaded => moviesData = <<>>
          /\ frame = [fn |-> "searchMovies", pc |-> "page",
                      moviesData |-> moviesData, dataLoaded |-> dataLoaded,
                      pending |-> <<>>, shown |-> Nothing]

\* The user edits the search box.
SearchInput(value) ==
    /\ frame.fn = "searchMovies"
    /\ pattern' = value
    /\ UNCHANGED <<text, algorithm, frame, prefix>>

\* searchMovies(searchInput.value) up to its return: a blank query and a
\* movie table that cannot be loaded show an error; otherwise the results
\* section is hidden and a timer is set.
SearchMovies ==
    /\ frame.fn = "searchMovies"
    /\ Len(frame.pending) < MaxPending
    /\ frame' =
          IF search_trim_empty(pattern) \/ ~frame.dataLoaded
          THEN [frame EXCEPT !.shown = [kind |-> "error", movies |-> <<>>,
                                        query |-> <<>>]]
          ELSE [frame EXCEPT !.shown = Nothing, !.pending = Append(@, pattern)]
    /\ UNCHANGED <<text, pattern, algorithm, prefix>>

\* The callback of the oldest timer: the matches are collected, sorted and
\* passed to displayResults with the query the timer was set for.
SearchMoviesTimeout ==
    /\ frame.fn = "searchMovies"
    /\ frame.pending # <<>>
    /\ LET query == Head(frame.pending)
           matches == searchMovies_forEach(frame.moviesData, query, 1, <<>>)
       IN  frame' = [frame EXCEPT
                        !.pending = Tail(@),
                        !.shown = [kind |-> "results",
                                   movies |-> searchMovies_sort(matches),
                                   query |-> query]]
    /\ UNCHANGED <<text, pattern, algorithm, prefix>>

NextMovies ==
    \/ \E value \in Queries : SearchInput(value)
    \/ SearchMovies
    \/ SearchMoviesTimeout

SpecMovies == InitMovies /\ [][NextMovies]_vars

(***************************************************************************)
(* script.js, Algorithm Tester: the page.  `text' is currentFileContent,   *)
(* `pattern' is patternInput.value and `algorithm' is algorithmSelect.value;*)
(* `frame' holds the elements the handlers write, the file reads in        *)
(* flight, and the timers set and not yet fired: the closures of the       *)
(* search timers of performSearch and the number of hide timers of         *)
(* showError.  Each handler runs to its end in one step.  The markup that  *)
(* gives searchBtn its first state is not in the source: both are taken.   *)
(***************************************************************************)

\* File contents "", "a", "aa"; pattern boxes "", " ", "a"; two tags.
FileTexts == {<<>>, <<97>>, <<97, 97>>}
PatternInputs == {<<>>, <<32>>, <<97>>}
PageTags == {"kmp", "boyer-moore"}

\* String.prototype.trim
RECURSIVE trim(_)
trim(s) ==
    IF s = <<>> THEN s
    ELSE IF Head(s) \in WhiteSpace THEN trim(Tail(s))
    ELSE IF s[Len(s)] \in WhiteSpace THEN trim(SubSeq(s, 1, Len(s) - 1))
    ELSE s

NoContent == [kind |-> "none", result |-> Idle]

\* showError(message): the message is shown and a timer is set that hides
\* resultsSection.
showError(f) ==
    [f EXCEPT !.resultsSection_display = "block",
              !.resultsContent = [kind |-> "error", result |-> Idle],
              !.hides = @ + 1]

\* displayResults(result)
displayResults(f, result) ==
    [f EXCEPT !.resultsSection_display = "block",
              !.resultsContent = [kind |-> "results", result |-> result]]

InitPage ==
    /\ text = <<>>
    /\ pattern \in PatternInputs
    /\ algorithm \in PageTags
    /\ prefix = 0
    /\ \E disabled \in BOOLEAN :
          frame = [fn |-> "performSearch", pc |-> "page",
                   searchBtn_disabled |-> disabled,
                   resultsSection_display |-> "none",
                   loadingIndicator_display |-> "none",
                   resultsContent |-> NoContent,
                   readers |-> 0, searches |-> <<>>, hides |-> 0]

\* The user edits the pattern box or the algorithm selector.
PageInput(value, alg) ==
    /\ frame.fn = "performSearch"
    /\ pattern' = value /\ algorithm' = alg
    /\ UNCHANGED <<text, frame, prefix>>

\* handleFileSelect and handleDrop with a text file: processFile starts to
\* read it.
ProcessFile ==
    /\ frame.fn = "performSearch"
    /\ frame.readers < MaxPending
    /\ frame' = [frame EXCEPT !.readers = @ + 1]
    /\ UNCHANGED <<text, pattern, algorithm, prefix>>

\* handleFileSelect and handleDrop with a file of another type.
HandleFileSelectInvalid ==
    /\ frame.fn = "performSearch"
    /\ frame.hides < MaxPending
    /\ frame' = showError(frame)
    /\ UNCHANGED <<text, pattern, algorithm, prefix>>

\* reader.onload
ReaderOnload(content) ==
    /\ frame.fn = "performSearch"
    /\ frame.readers > 0
    /\ text' = content
    /\ frame' = [frame EXCEPT !.readers = @ - 1,
                              !.searchBtn_disabled = FALSE,
                              !.resultsSection_display = "none"]
    /\ UNCHANGED <<pattern, algorithm, prefix>>

\* reader.onerror
ReaderOnerror ==
    /\ frame.fn = "performSearch"
    /\ frame.readers > 0
    /\ frame.hides < MaxPending
    /\ frame' = showError([frame EXCEPT !.readers = @ - 1])
    /\ UNCHANGED <<text, pattern, algorithm, prefix>>

\* A click on searchBtn, which a disabled button does not deliver:
\* performSearch up to its return.
PerformSearch ==
    /\ frame.fn = "performSearch"
    /\ ~frame.searchBtn_disabled
    /\ Len(frame.searches) < MaxPending
    /\ frame.hides < MaxPending
    /\ frame' =
          IF trim(pattern) = <<>> \/ text = <<>>
          THEN showError(frame)
          ELSE [frame EXCEPT
                   !.loadingIndicator_display = "block",
                   !.resultsSection_display = "none",
                   !.searchBtn_disabled = TRUE,
                   !.searches = Append(@, [pattern |-> trim(pattern),
                                           algorithm |-> algorithm])]
    /\ UNCHANGED <<text, pattern, algorithm, prefix>>

\* The callback of the oldest search timer.
PerformSearchTimeout ==
    /\ frame.fn = "performSearch"
    /\ frame.searches # <<>>
    /\ LET closure == Head(frame.searches)
           indices == Run(performStringMatching_call(
                              text, closure.pattern, closure.algorithm),
                          text, closure.pattern).matches
           result == performStringMatching_return(
                         indices, text, closure.pattern, closure.algorithm)
       IN  frame' = [displayResults(frame, result) EXCEPT
                        !.searches = Tail(@),
                        !.loadingIndicator_display = "none",
                        !.searchBtn_disabled = FALSE]
    /\ UNCHANGED <<text, pattern, algorithm, prefix>>

\* The callback of a timer of showError.
ShowErrorTimeout ==
    /\ frame.fn = "performSearch"
    /\ frame.hides > 0
    /\ frame' = [frame EXCEPT !.hides = @ - 1, !.resultsSection_display = "none"]
    /\ UNCHANGED <<text, pattern, algorithm, prefix>>

NextPage ==
    \/ \E value \in PatternInputs, alg \in PageTags : PageInput(value, alg)
    \/ ProcessFile
    \/ HandleFileSelectInvalid
    \/ \E content \in FileTexts : ReaderOnload(content)
    \/ ReaderOnerror
    \/ PerformSearch
    \/ PerformSearchTimeout
    \/ ShowErrorTimeout

SpecPage == InitPage /\ [][NextPage]_vars

(***************************************************************************)
(* sentiment.js: the page.  `text' is sentimentText.value; `frame' holds   *)
(* SENTIMENT_DATA, the elements the handlers write, the asynchronous calls *)
(* in progress with the await each one stands at, and the hide timers of   *)
(* showSentimentError.  A value of data.json is the table it should hold,  *)
(* null, or 0; `load' records how the last loadSentimentData ended and     *)
(* `analyzed' the SENTIMENT_DATA analyzeSentiment last ran with.           *)
(***************************************************************************)

SentimentTexts == {<<32>>, <<97>>}
JsonValues == {"table", "null", "zero"}

\* !SENTIMENT_DATA
sentiment_falsy(data) == data \in {"null", "zero"}

\* Faulty variant of loadSentimentData_catch: the error is logged and
\* SENTIMENT_DATA is left as it is.
loadSentimentData_catch_logOnly(data) == data

\* The catch block of loadSentimentData: SENTIMENT_DATA is the built-in
\* table.
loadSentimentData_catch(data) == "fallback"

RemoveAt(s, k) == SubSeq(s, 1, k - 1) \o SubSeq(s, k + 1, Len(s))

\* The synchronous part of performSentimentAnalysis after the data is there.
performSentimentAnalysis_showLoading(f) ==
    [f EXCEPT !.sentimentLoading_display = "block",
              !.sentimentResults_display = "none",
              !.analyzeBtn_disabled = TRUE]

showSentimentError(f) ==
    [f EXCEPT !.sentimentResults_display = "block",
              !.sentimentResults = "error",
              !.hides = @ + 1]

\* DOMContentLoaded has called loadSentimentData, which awaits fetch.
InitSentimentPage ==
    /\ text \in SentimentTexts
    /\ pattern = <<>>
    /\ algorithm = "naive"
    /\ prefix = 0
    /\ frame = [fn |-> "performSentimentAnalysis", pc |-> "page",
                SENTIMENT_DATA |-> "null",
                analyzeBtn_disabled |-> FALSE,
                sentimentLoading_display |-> "none",
                sentimentResults_display |-> "none",
                sentimentResults |-> "none",
                calls |-> <<[caller |-> "DOMContentLoaded", await |-> "fetch"]>>,
                hides |-> 0,
                load |-> [end |-> "none", json |-> "none", data |-> "none"],
                analyzed |-> "never"]

\* The user edits the text box.
SentimentInput(value) ==
    /\ frame.fn = "performSentimentAnalysis"
    /\ text' = value
    /\ UNCHANGED <<pattern, algorithm, frame, prefix>>

\* await fetch('js/data.json') of call k ends: the fetch is rejected, or the
\* response is not OK and the Error is thrown, or loadSentimentData goes on
\* to await response.json().
LoadSentimentDataFetch(k, outcome) ==
    /\ frame.fn = "performSentimentAnalysis"
    /\ k \in 1..Len(frame.calls) /\ frame.calls[k].await = "fetch"
    /\ frame' =
          IF outcome = "ok"
          THEN [frame EXCEPT !.calls[k].await = "json"]
          ELSE LET data == loadSentimentData_catch(frame.SENTIMENT_DATA)
               IN  [frame EXCEPT
                       !.SENTIMENT_DATA = data,
                       !.calls[k].await = "loadSentimentData",
                       !.load = [end |-> outcome, json |-> "none", data |-> data]]
    /\ UNCHANGED <<text, pattern, algorithm, prefix>>

\* await response.json() of call k ends: the body is not JSON, or its value
\* is assigned to SENTIMENT_DATA and Object.keys is applied to it, which
\* throws a TypeError for null.
LoadSentimentDataJson(k, outcome) ==
    /\ frame.fn = "performSentimentAnalysis"
    /\ k \in 1..Len(frame.calls) /\ frame.calls[k].await = "json"
    /\ LET thrown == outcome = "syntax error" \/ outcome = "null"
           data == IF thrown THEN loadSentimentData_catch(
                                      IF outcome = "null"
                                      THEN outcome ELSE frame.SENTIMENT_DATA)
                   ELSE outcome
       IN  frame' = [frame EXCEPT
                        !.SENTIMENT_DATA = data,
                        !.calls[k].await = "loadSentimentData",
                        !.load = [end |-> IF outcome = "syntax error" THEN outcome
                                          ELSE IF outcome = "null" THEN "type error"
                                          ELSE "ok",
                                  json |-> IF outcome = "syntax error"
                                           THEN "none" ELSE outcome,
                                  data |-> data]]
    /\ UNCHANGED <<text, pattern, algorithm, prefix>>

\* await loadSentimentData() of call k ends: the DOMContentLoaded handler
\* logs and returns; performSentimentAnalysis shows the loading indicator,
\* disables analyzeBtn and awaits its timer.
LoadSentimentDataReturn(k) ==
    /\ frame.fn = "performSentimentAnalysis"
    /\ k \in 1..Len(frame.calls) /\ frame.calls[k].await = "loadSentimentData"
    /\ frame' =
          IF frame.calls[k].caller = "DOMContentLoaded"
          THEN [frame EXCEPT !.calls = RemoveAt(@, k)]
          ELSE [performSentimentAnalysis_showLoading(frame) EXCEPT
                   !.calls[k].await = "setTimeout"]
    /\ UNCHANGED <<text, pattern, algorithm, prefix>>

\* A click on analyzeBtn, which a disabled button does not deliver:
\* performSentimentAnalysis up to its first await, or to its return.
PerformSentimentAnalysis ==
    /\ frame.fn = "performSentimentAnalysis"
    /\ ~frame.analyzeBtn_disabled
    /\ Len(frame.calls) < MaxPending
    /\ frame.hides < MaxPending
    /\ frame' =
          IF trim(text) = <<>>
          THEN showSentimentError(frame)
          ELSE IF sentiment_falsy(frame.SENTIMENT_DATA)
          THEN [frame EXCEPT
                   !.calls = Append(@, [caller |-> "performSentimentAnalysis",
                                        await |-> "fetch"])]
          ELSE [performSentimentAnalysis_showLoading(frame) EXCEPT
                   !.calls = Append(@, [caller |-> "performSentimentAnalysis",
                                        await |-> "setTimeout"])]
    /\ UNCHANGED <<text, pattern, algorithm, prefix>>

\* The timer of call k fires: analyzeSentiment runs on SENTIMENT_DATA, the
\* results are displayed, and the finally block enables analyzeBtn.
PerformSentimentAnalysisTimeout(k) ==
    /\ frame.fn = "performSentimentAnalysis"
    /\ k \in 1..Len(frame.calls) /\ frame.calls[k].await = "setTimeout"
    /\ frame' = [frame EXCEPT
                    !.analyzed = frame.SENTIMENT_DATA,
                    !.sentimentResults_display = "block",
                    !.sentimentResults = "results",
                    !.sentimentLoading_display = "none",
                    !.analyzeBtn_disabled = FALSE,
                    !.calls = RemoveAt(@, k)]
    /\ UNCHANGED <<text, pattern, algorithm, prefix>>

\* The callback of a timer of showSentimentError.
ShowSentimentErrorTimeout ==
    /\ frame.fn = "performSentimentAnalysis"
    /\ frame.hides > 0
    /\ frame' = [frame EXCEPT !.hides = @ - 1, !.sentimentResults_display = "none"]
    /\ UNCHANGED <<text, pattern, algorithm, prefix>>

NextSentimentPage ==
    \/ \E value \in SentimentTexts : SentimentInput(value)
    \/ \E k \in 1..MaxPending, outcome \in {"rejected", "not ok", "ok"} :
          LoadSentimentDataFetch(k, outcome)
    \/ \E k \in 1..MaxPending, outcome \in JsonValues \cup {"syntax error"} :
          LoadSentimentDataJson(k, outcome)
    \/ \E k \in 1..MaxPending : LoadSentimentDataReturn(k)
    \/ PerformSentimentAnalysis
    \/ \E k \in 1..MaxPending : PerformSentimentAnalysisTimeout(k)
    \/ ShowSentimentErrorTimeout

SpecSentimentPage == InitSentimentPage /\ [][NextSentimentPage]_vars

(***************************************************************************)
(* hashing of the two C++ classes alone, on longer strings: the int that   *)
(* prefix is stored in                                                     *)
(***************************************************************************)

\* The longest string hashed here.
MaxHash == 5

\* 7-bit ASCII characters: "A", "a", "z".
HashAlphabet == {65, 97, 122}

\* The largest value of a 32-bit signed int.
INT_MAX == 2147483647

\* c * 101^e <= limit, for c >= 0, without forming the product.
RECURSIVE PowTermFits(_, _, _)
PowTermFits(c, e, limit) ==
    IF e = 0 THEN c <= limit ELSE PowTermFits(c, e - 1, limit \div 101)

\* prefix = int(char(chars[0])) * pow(101, size - 1): the double converts to
\* int only when it is in the range of int; otherwise the conversion is
\* undefined.
hashing_prefix_fits(chars) ==
    PowTermFits(CharAt(chars, 0), Len(chars) - 1, INT_MAX)

server_hashing_call(chars) ==
    IF hashing_prefix_fits(chars)
    THEN [fn |-> "server.hashing", pc |-> "done",
          hash |-> server_hashing(chars, 0, 0, 0, 0).hash,
          prefix |-> server_hashing(chars, 0, 0, 0, 0).prefix]
    ELSE [fn |-> "server.hashing", pc |-> "overflow"]

standalone_hashing_call(chars, static_prefix) ==
    IF hashing_prefix_fits(chars)
    THEN [fn |-> "standalone.hashing", pc |-> "done",
          hash |-> standalone_hashing(chars, 0, 0, static_prefix, 0).hash,
          prefix |-> standalone_hashing(chars, 0, 0, static_prefix, 0).prefix]
    ELSE [fn |-> "standalone.hashing", pc |-> "overflow"]

InitHashing ==
    /\ text = <<>>
    /\ pattern \in Strings(HashAlphabet, MaxHash) \ {<<>>}
    /\ algorithm = ""
    /\ frame = Idle
    /\ prefix = 0

ServerHashing ==
    /\ frame.pc = "idle"
    /\ frame' = server_hashing_call(pattern)
    /\ UNCHANGED <<text, pattern, algorithm, prefix>>

StandaloneHashing ==
    /\ frame.pc = "idle"
    /\ frame' = standalone_hashing_call(pattern, prefix)
    /\ prefix' = IF frame'.pc = "done" THEN frame'.prefix ELSE prefix
    /\ UNCHANGED <<text, pattern, algorithm>>

HashingReturn ==
    /\ frame.fn \in {"server.hashing", "standalone.hashing"}
    /\ frame.pc = "done"
    /\ frame' = Idle
    /\ UNCHANGED <<text, pattern, algorithm, prefix>>

NextHashing ==
    \/ ServerHashing
    \/ StandaloneHashing
    \/ HashingReturn

SpecHashing == InitHashing /\ [][NextHashing]_vars

(***************************************************************************)
(* The Horspool matchers of script.js and of the standalone C++ program,   *)
(* on patterns over "a", "b", "c"                                          *)
(***************************************************************************)

InitHorspool ==
    /\ text \in Strings(LpsAlphabet, MaxText)
    /\ pattern \in Strings(LpsAlphabet, MaxPat)
    /\ algorithm = ""
    /\ frame = Idle
    /\ prefix = 0

NextHorspool ==
    \/ PerformStringMatching("horspool")
    \/ HorspoolLoop
    \/ PerformStringMatchingReturn
    \/ Return
    \/ StandaloneHorspool
    \/ StandaloneHorspoolLoop
    \/ StandaloneReturn

SpecHorspool == InitHorspool /\ [][NextHorspool]_vars

(***************************************************************************)
(* The Algorithm Tester under run-to-completion: JavaScript runs a call    *)
(* it has started until the call returns, so a loop that can take another  *)
(* iteration takes it.                                                     *)
(***************************************************************************)

SpecTermination ==
    /\ Init
    /\ [][Next]_vars
    /\ WF_vars(NaiveLoop)
    /\ WF_vars(ComputeLPSLoop)
    /\ WF_vars(KmpLoop)
    /\ WF_vars(RabinKarpLoop)
    /\ WF_vars(HorspoolLoop)

(***************************************************************************)
(* Properties                                                              *)
(***************************************************************************)

\* The pattern occurs in the text at offset i.
Occurs(t, p, i) == \A k \in 1..Len(p) : t[i + k] = p[k]

\* The offsets at which the pattern occurs in the text.
Occurrences(t, p) == {i \in 0..(Len(t) - Len(p)) : Occurs(t, p, i)}

Range(s) == {s[k] : k \in 1..Len(s)}

StrictlyIncreasing(s) == \A k \in 1..(Len(s) - 1) : s[k] < s[k + 1]

\* C1: for every text and pattern, a finished call of any of the four
\* Algorithm Tester matchers has the offsets that each of the four matchers
\* returns for that text and pattern.
C1_Agreement ==
    (frame.fn \in Tester /\ frame.pc = "done") =>
        /\ frame.matches = naiveStringMatching(text, pattern)
        /\ frame.matches = kmpStringMatching(text, pattern)
        /\ frame.matches = rabinKarpStringMatching(text, pattern)
        /\ frame.matches = horspoolStringMatching(text, pattern)

\* Horspool has returned two overlapping matches of a two-character pattern.
C1_Witness ==
    /\ frame.fn = "horspoolStringMatching" /\ frame.pc = "done"
    /\ Len(pattern) = 2 /\ frame.matches = <<0, 1>>

Naive == {"naiveStringMatching", "sentiment.naiveSearch",
          "server.naiveStringMatching"}

\* C2: for a non-empty pattern no longer than the text, a naive matcher
\* returns each offset at which the pattern occurs once, and nothing else.
C2_NaiveExact ==
    (frame.fn \in Naive /\ frame.pc = "done"
        /\ Len(pattern) >= 1 /\ Len(text) >= Len(pattern)) =>
        /\ Range(Returned(frame)) = Occurrences(text, pattern)
        /\ Len(Returned(frame)) = Cardinality(Occurrences(text, pattern))

\* The naive matcher has returned some, not all, of the window starts.
C2_Witness ==
    /\ frame.fn = "naiveStringMatching" /\ frame.pc = "done"
    /\ Len(pattern) = 2 /\ Len(text) = 3 /\ frame.matches = <<1>>

\* C3: at every step of the four Algorithm Tester matchers the recorded
\* offsets are strictly increasing and lie in 0..n-m, and "aa" in "aaa"
\* gives [0, 1].
C3_MatchesOrdered ==
    frame.fn \in Tester =>
        /\ StrictlyIncreasing(frame.matches)
        /\ Range(frame.matches) \subseteq 0..(Len(text) - Len(pattern))
        /\ (frame.pc = "done" /\ text = <<97, 97, 97>> /\ pattern = <<97, 97>>)
               => frame.matches = <<0, 1>>

\* KMP has searched "aa" in "aaa" and recorded both occurrences.
C3_Witness ==
    /\ frame.fn = "kmpStringMatching" /\ frame.pc = "done"
    /\ text = <<97, 97, 97>> /\ pattern = <<97, 97>>
    /\ frame.matches = <<0, 1>>

Sentiment == {"sentiment.naiveSearch", "sentiment.kmpSearch",
              "sentiment.hashingSearch", "sentiment.horspoolSearch"}

\* C4: for every text, each guarded JavaScript matcher (the four of the
\* Algorithm Tester and the four of sentiment.js) returns no offset for the
\* empty pattern.
C4_EmptyPattern ==
    (frame.fn \in Tester \cup Sentiment /\ frame.pc = "done" /\ pattern = <<>>) =>
        Returned(frame) = <<>>

\* Horspool has returned from a search of a non-empty text for the empty
\* pattern.
C4_Witness ==
    /\ frame.fn = "horspoolStringMatching" /\ frame.pc = "done"
    /\ pattern = <<>> /\ Len(text) = MaxText

ScriptKeyword == {"script.naiveSearch", "script.horspoolSearch",
                  "script.kmpSearch", "script.hashingSearch"}

\* C5: for every text, findMatches of the keyword-list code of script.js
\* returns no offset for the empty pattern, under every tag.
C5_FindMatchesEmptyPattern ==
    (frame.fn \in ScriptKeyword /\ frame.pc = "done" /\ pattern = <<>>) =>
        frame.matches = <<>>

Server == {"server.naiveStringMatching", "server.searchKMP", "server.rabinKarp"}

\* C6: for every text, each of the three matchers of the C++ server class
\* returns an empty vector for the empty pattern.
C6_ServerEmptyPattern ==
    (frame.fn \in Server /\ frame.pc \in {"done", "crashed"} /\ pattern = <<>>) =>
        (frame.pc = "done" /\ frame.found_in = <<>>)

\* C7: whenever the pattern is longer than the text, a matcher call ends by
\* returning no offset.
C7_PatternLongerThanText ==
    (Len(pattern) > Len(text)) =>
        /\ frame.pc = "done" => Returned(frame) = <<>>
        /\ frame.pc = "returned" => frame.count = 0
        /\ frame.pc # "crashed"

ExpectedMatcher(alg) ==
    CASE alg = "naive" -> "naiveStringMatching"
      [] alg = "kmp" -> "kmpStringMatching"
      [] alg = "hashing" -> "rabinKarpStringMatching"
      [] alg = "horspool" -> "horspoolStringMatching"
      [] OTHER -> "naiveStringMatching"

MatcherOffsets(fn, t, p) ==
    CASE fn = "naiveStringMatching" -> naiveStringMatching(t, p)
      [] fn = "kmpStringMatching" -> kmpStringMatching(t, p)
      [] fn = "rabinKarpStringMatching" -> rabinKarpStringMatching(t, p)
      [] fn = "horspoolStringMatching" -> horspoolStringMatching(t, p)

\* C8: performStringMatching runs the matcher its tag names, the naive
\* matcher for any other tag, and what it returns holds that matcher's
\* offsets, their count and the tag.
C8_Dispatch ==
    /\ frame.fn \in Tester => frame.fn = ExpectedMatcher(algorithm)
    /\ frame.fn = "performStringMatching" =>
          /\ frame.algorithm = algorithm
          /\ frame.count = Len(frame.matches)
          /\ [k \in 1..Len(frame.matches) |-> frame.matches[k].pos]
                = MatcherOffsets(ExpectedMatcher(frame.algorithm), text, pattern)

\* performStringMatching has returned two matches for a tag it does not know.
C8_Witness ==
    /\ frame.fn = "performStringMatching"
    /\ frame.algorithm = "boyer-moore"
    /\ frame.count = 2

\* k is the length of a proper prefix of s that is also a suffix of s.
IsBorder(s, k) == k < Len(s) /\ SubSeq(s, 1, k) = SubSeq(s, Len(s) - k + 1, Len(s))

LongestBorder(s) ==
    CHOOSE k \in 0..(Len(s) - 1) :
        IsBorder(s, k) /\ \A j \in (k + 1)..(Len(s) - 1) : ~IsBorder(s, j)

\* C9: for a non-empty pattern computeLPS returns a table of the pattern's
\* length whose entry i is the length of the longest proper prefix of
\* pattern[0..i] that is also its suffix; for "ababaca" it is
\* [0,0,1,2,3,0,1].
C9_LPS ==
    (frame.fn \in {"computeLPS", "search.computeLPS"} /\ frame.pc = "done"
        /\ pattern # <<>>) =>
        /\ Len(frame.lps) = Len(pattern)
        /\ \A i \in 1..Len(pattern) :
              frame.lps[i] = LongestBorder(SubSeq(pattern, 1, i))
        /\ pattern = <<97, 98, 97, 98, 97, 99, 97>>
              => frame.lps = <<0, 0, 1, 2, 3, 0, 1>>

\* computeLPS has returned the table of "ababaca".
C9_Witness ==
    /\ frame.fn = "computeLPS" /\ frame.pc = "done"
    /\ pattern = <<97, 98, 97, 98, 97, 99, 97>>
    /\ frame.lps = <<0, 0, 1, 2, 3, 0, 1>>

\* C10: an iteration of the KMP search loop (script.js kmpStringMatching,
\* the server's searchKMP) advances the text cursor i by one, or leaves i
\* unchanged and decreases the pattern cursor j.
C10_KmpCursor ==
    [][(frame.fn \in {"kmpStringMatching", "server.searchKMP"}
          /\ frame.pc = "loop" /\ frame.i < Len(text)) =>
            \/ frame'.i = frame.i + 1
            \/ frame'.i = frame.i /\ frame'.j < frame.j]_vars

\* The KMP search has advanced, holds a partial match and stands at a
\* mismatch: the next iteration leaves i unchanged and falls back.
C10_Witness ==
    /\ frame.fn = "kmpStringMatching" /\ frame.pc = "loop"
    /\ 0 < frame.i /\ frame.i < Len(text) /\ 0 < frame.j
    /\ At(text, frame.i) # At(pattern, frame.j)

\* C11: every call of the four script.js matchers, computeLPS inside
\* kmpStringMatching included, returns; each Horspool iteration that stays
\* in the loop has moved the window start i forward.
C11_Termination ==
    /\ (frame.fn \in Tester /\ frame.pc # "done")
          ~> (frame.fn \in Tester /\ frame.pc = "done")
    /\ [][(frame.fn = "horspoolStringMatching" /\ frame.pc = "loop"
            /\ frame'.pc = "loop") => frame'.i > frame.i]_vars

\* The Horspool matcher has returned after moving its window across a text
\* of three characters; the LPS scan has fallen back and gone on.
C11_Witness ==
    \/ /\ frame.fn = "horspoolStringMatching" /\ frame.pc = "done"
       /\ Len(text) = 3 /\ Len(pattern) = 2 /\ frame.i = 2
       /\ frame.matches = <<>>
    \/ /\ frame.fn = "kmpStringMatching" /\ frame.pc = "done"
       /\ pattern = <<97, 97, 111>> /\ text = <<97, 97, 97>>

\* The hash of the k characters of t from offset i, by Horner's rule in
\* base `base' modulo `prime'.
RECURSIVE DirectHash(_, _, _)
DirectHash(t, i, k) ==
    IF k = 0 THEN 0 ELSE (base * DirectHash(t, i, k - 1) + t[i + k]) % prime

\* C12: in Rabin-Karp the hash rolled from the window at i is the Horner
\* hash of the window at i + 1, for every i from 0 to n-m-1: in every state
\* of rabinKarpStringMatching's loop textHash is the Horner hash of the
\* window at i, and one iteration of sentiment.js hashingSearch started on
\* the window at i with that window's hash leaves the hash of window i + 1.
C12_RollingHash ==
    /\ (frame.fn = "rabinKarpStringMatching" /\ frame.pc = "loop"
          /\ frame.i <= Len(text) - Len(pattern)) =>
            frame.textHash = DirectHash(text, frame.i, Len(pattern))
    /\ (frame.fn = "sentiment.hashingSearch" /\ Len(pattern) > 0) =>
          \A i \in 0..(Len(text) - Len(pattern) - 1) :
             LET at_i == [sentiment_hashingSearch_call(text, pattern) EXCEPT
                             !.i = i,
                             !.textHash = DirectHash(text, i, Len(pattern))]
             IN  sentiment_hashingSearch_loop(at_i, text, pattern).textHash
                    = DirectHash(text, i + 1, Len(pattern))

\* rabinKarpStringMatching has rolled its hash twice, over a text whose
\* characters differ.
C12_Witness ==
    /\ frame.fn = "rabinKarpStringMatching" /\ frame.pc = "loop"
    /\ frame.i = 2 /\ Len(pattern) = 1
    /\ text = <<111, 97, 10>>

Hashing == {"rabinKarpStringMatching", "sentiment.hashingSearch"}

\* C13: Rabin-Karp records a window start exactly when the window equals
\* the pattern: the offsets recorded so far are the occurrences before the
\* window at i (all of them once the call has returned), and a window equal
\* to the pattern has the pattern's hash.
C13_NoFalsePositive ==
    /\ (frame.fn \in Hashing /\ frame.pc = "loop") =>
          /\ Range(frame.matches)
                = {k \in Occurrences(text, pattern) : k < frame.i}
          /\ (frame.i <= Len(text) - Len(pattern)
                /\ Occurs(text, pattern, frame.i))
                => frame.textHash = frame.patternHash
    /\ (frame.fn \in Hashing /\ frame.pc = "done" /\ Len(pattern) > 0) =>
          Range(frame.matches) = Occurrences(text, pattern)

\* rabinKarpStringMatching has returned from a text whose first window
\* differs from the pattern and has the pattern's hash ("\n" and "o" are
\* 101 apart), and whose second window is the pattern.
C13_Witness ==
    /\ frame.fn = "rabinKarpStringMatching" /\ frame.pc = "done"
    /\ pattern = <<111>> /\ text = <<10, 111>>
    /\ DirectHash(text, 0, 1) = DirectHash(pattern, 0, 1)
    /\ frame.matches = <<1>>

\* The indices among pattern positions 0..m-2 that hold character c.
Positions(p, c) == {r \in 0..(Len(p) - 2) : At(p, r) = c}

Maximum(S) == CHOOSE r \in S : \A q \in S : q <= r

\* m-1-r for the rightmost such index r, and m when there is none.
ShiftOf(p, c) ==
    IF Positions(p, c) = {}
    THEN Len(p)
    ELSE Len(p) - 1 - Maximum(Positions(p, c))

\* Each Horspool iteration whose window differs from the pattern moves the
\* window by ShiftOf of the text character under the window's last position.
HorspoolShiftUsed ==
    /\ (frame.fn = "horspoolStringMatching" /\ frame.pc = "loop"
          /\ frame.i <= Len(text) - Len(pattern)
          /\ ~Occurs(text, pattern, frame.i)) =>
            frame'.i = frame.i
                + ShiftOf(pattern, At(text, frame.i + Len(pattern) - 1))
    /\ (frame.fn = "standalone.horspool" /\ frame.pc = "loop"
          /\ standalone_horspool_continue(frame.i, text)
          /\ ~Occurs(text, pattern, frame.i - (Len(pattern) - 1))) =>
            frame'.i = frame.i + ShiftOf(pattern, CharAt(text, frame.i))

\* The table of script.js: the characters of positions 0..m-2.
ScriptShiftTable ==
    (frame.fn = "horspoolStringMatching" /\ frame.pc = "loop") =>
        /\ DOMAIN frame.shiftTable
              = {At(pattern, r) : r \in 0..(Len(pattern) - 2)}
        /\ \A c \in DOMAIN frame.shiftTable :
              frame.shiftTable[c] = ShiftOf(pattern, c)
        /\ pattern = <<97, 98, 99>> => frame.shiftTable = (97 :> 2) @@ (98 :> 1)

C15_ServerThreads ==
    frame.fn = "threads" =>
        \A k \in Threads :
            frame.thread[k].pc = "done" =>
                frame.thread[k].found_in
                    \in server_rabinKarp_runs(
                            server_rabinKarp_call(text, frame.pattern[k]),
                            text, frame.pattern[k])

\* The first call has returned every occurrence of its pattern while the
\* second call, with another pattern, is between two iterations of its loop.
C15_Witness ==
    /\ frame.fn = "threads"
    /\ text = <<97, 97, 97>> /\ frame.pattern = <<<<97>>, <<97, 97>>>>
    /\ frame.thread[1].pc = "done" /\ frame.thread[1].found_in = <<0, 1, 2>>
    /\ frame.thread[2].pc = "loop" /\ frame.thread[2].start = 1

\* C16: two rabinKarp calls of the standalone class whose steps interleave
\* each return the vector the call returns when it runs alone.
C16_StandaloneThreads ==
    frame.fn = "threads" =>
        \A k \in Threads :
            frame.thread[k].pc = "done" =>
                frame.thread[k].found_in
                    = standalone_rabinKarp(text, frame.pattern[k])

\* C17: kmpStringMatching of search.js records an offset only where the
\* text and the pattern hold the same characters, case included: "he" in
\* "He" gives no offset.
C17_CaseSensitive ==
    (frame.fn = "search.kmpStringMatching" /\ frame.pc = "done") =>
        /\ \A k \in 1..Len(frame.matches) :
              /\ frame.matches[k] \in 0..(Len(text) - Len(pattern))
              /\ Occurs(text, pattern, frame.matches[k])
        /\ (text = <<72, 101>> /\ pattern = <<104, 101>>) => frame.matches = <<>>

\* C18: hashing a non-empty string of 7-bit ASCII characters overflows no
\* integer: prefix = chars[0] * 101^(size-1) is in the range of int.
C18_NoOverflow ==
    frame.fn \in {"server.hashing", "standalone.hashing"} =>
        /\ frame.pc # "overflow"
        /\ frame.prefix <= INT_MAX

\* C19: for a non-empty pattern the pointer-based naiveStringMatching of the
\* standalone class returns every offset at which the pattern occurs in the
\* text: "aa" in "aaa" gives [0, 1].
C19_PointerNaive ==
    (frame.fn = "standalone.naiveStringMatching" /\ frame.pc = "done"
        /\ pattern # <<>>) =>
        /\ Range(frame.found_in) = Occurrences(text, pattern)
        /\ (text = <<97, 97, 97>> /\ pattern = <<97, 97>>)
              => frame.found_in = <<0, 1>>

ComputeLPS == {"computeLPS", "search.computeLPS", "server.computeLPS"}

\* C20: in every state of computeLPS, lps[0] is 0, every entry satisfies
\* lps[k] <= k, and len < i.
C20_LpsInvariant ==
    frame.fn \in ComputeLPS =>
        /\ Len(frame.lps) > 0 => frame.lps[1] = 0
        /\ \A k \in 0..(Len(frame.lps) - 1) : frame.lps[k + 1] <= k
        /\ frame.len < frame.i

\* computeLPS is in the middle of a pattern, with a prefix of length 2
\* matched and entries written.
C20_Witness ==
    /\ frame.fn \in {"computeLPS", "server.computeLPS"}
    /\ frame.pc = "computeLPS"
    /\ frame.len = 2 /\ frame.i = 4 /\ frame.i < Len(pattern)
    /\ frame.lps[4] = 2


\* The activation records a call passes through, from f to its return.
RECURSIVE Frames(_, _, _)
Frames(f, t, p) ==
    IF f.pc = "done" THEN {f} ELSE {f} \cup Frames(Step(f, t, p), t, p)

HashRange == 0..(prime - 1)

\* C21: in Rabin-Karp patternHash and textHash are integers in [0, 101)
\* after initialisation and after every roll, also when the intermediate
\* value of the roll is negative: in every state of rabinKarpStringMatching,
\* and in every activation record a call of sentiment.js hashingSearch
\* passes through.
C21_HashRange ==
    /\ frame.fn = "rabinKarpStringMatching" =>
          frame.patternHash \in HashRange /\ frame.textHash \in HashRange
    /\ frame.fn = "sentiment.hashingSearch" =>
          \A g \in Frames(sentiment_hashingSearch_call(text, pattern), text, pattern) :
             g.patternHash \in HashRange /\ g.textHash \in HashRange

\* rabinKarpStringMatching has rolled its hash from the window at i - 1, and
\* the remainder computed in that roll was negative.
C21_Witness ==
    /\ frame.fn = "rabinKarpStringMatching" /\ frame.pc = "loop"
    /\ frame.i >= 1 /\ frame.i <= Len(text) - Len(pattern)
    /\ rabinKarp_roll_negative(text, DirectHash(text, frame.i - 1, Len(pattern)),
                               frame.h, frame.i - 1, Len(pattern)) < 0


\* The values of a shift table are in [1, m].
ShiftTableInRange(shiftTable, m) ==
    \A c \in DOMAIN shiftTable : shiftTable[c] \in 1..m

\* C22: for every non-empty pattern of length m every value stored in the
\* Horspool shift table is in [1, m], and every shift applied after a
\* mismatch is at least 1 and at most m: in every loop state and iteration
\* of horspoolStringMatching of script.js, and in every activation record a
\* call of sentiment.js horspoolSearch passes through.
C22_ShiftRange ==
    /\ []((frame.fn = "horspoolStringMatching" /\ frame.pc = "loop") =>
            ShiftTableInRange(frame.shiftTable, Len(pattern)))
    /\ [][(frame.fn = "horspoolStringMatching" /\ frame.pc = "loop"
             /\ frame.i <= Len(text) - Len(pattern)
             /\ ~Occurs(text, pattern, frame.i)) =>
               frame'.i - frame.i \in 1..Len(pattern)]_vars
    /\ [](frame.fn = "sentiment.horspoolSearch" =>
            \A g \in Frames(sentiment_horspoolSearch_call(text, pattern),
                            text, pattern) :
               g.pc = "loop" =>
                  /\ ShiftTableInRange(g.shiftTable, Len(pattern))
                  /\ (g.i <= Len(text) - Len(pattern)
                        /\ ~Occurs(text, pattern, g.i)) =>
                       Step(g, text, pattern).i - g.i \in 1..Len(pattern))

\* horspoolStringMatching has shifted the window of pattern "aao" over the
\* text "aaa" by the table value 1 of "a".
C22_Witness ==
    /\ frame.fn = "horspoolStringMatching" /\ frame.pc = "loop"
    /\ pattern = <<97, 97, 111>> /\ text = <<97, 97, 97>>
    /\ frame.shiftTable = (97 :> 1)
    /\ frame.i = 1 /\ frame.matches = <<>>


\* C23: at the start of every Horspool loop iteration with window start i,
\* every offset smaller than i at which the pattern occurs in the text has
\* been recorded, in horspoolStringMatching of script.js and in horspool of
\* the standalone C++ program (whose i is the window's last position): no
\* mismatch shift and no advance by 1 after a match skips an occurrence.
C23_NoSkip ==
    /\ (frame.fn = "horspoolStringMatching" /\ frame.pc = "loop") =>
          {k \in Occurrences(text, pattern) : k < frame.i}
             \subseteq Range(frame.matches)
    /\ (frame.fn = "standalone.horspool" /\ frame.pc = "loop") =>
          {k \in Occurrences(text, pattern) : k < frame.i - (Len(pattern) - 1)}
             \subseteq Range(frame.found_in)

\* horspoolStringMatching has recorded the overlapping occurrences of "aa"
\* at 0 and 1 in "aaa", advancing by 1 after each.
C23_Witness ==
    /\ frame.fn = "horspoolStringMatching" /\ frame.pc = "loop"
    /\ pattern = <<97, 97>> /\ text = <<97, 97, 97>>
    /\ frame.i = 2 /\ frame.matches = <<0, 1>>


\* The condition of C24 on an activation record g at the head of the KMP
\* search loop; an occurrence at k is text[k..k+m) and has ended at or
\* before position i when k + m <= i.
KmpLoopHead(g, t, p) ==
    /\ g.j \in 0..(Len(p) - 1) /\ g.j <= g.i
    /\ \A k \in 1..g.j : p[k] = t[g.i - g.j + k]
    /\ {k \in Occurrences(t, p) : k + Len(p) <= g.i} \subseteq Range(g.matches)

\* C24: at the head of every KMP search loop iteration the pattern cursor j
\* satisfies 0 <= j < m and j <= i, the first j characters of the pattern
\* equal text[i-j..i), and every occurrence of the pattern that has ended at
\* or before text position i has been recorded: in every search loop state
\* of kmpStringMatching of script.js, and in every activation record of the
\* search loop a call of sentiment.js kmpSearch passes through.
C24_KmpLoopHead ==
    /\ (frame.fn = "kmpStringMatching" /\ frame.pc = "loop") =>
          KmpLoopHead(frame, text, pattern)
    /\ frame.fn = "sentiment.kmpSearch" =>
          \A g \in Frames(sentiment_kmpSearch_call(text, pattern), text, pattern) :
             g.pc = "search" => KmpLoopHead(g, text, pattern)

\* kmpStringMatching has recorded "aa" at 0 in "aaa" and stands at the head
\* of the next iteration with j = lps[1] = 1.
C24_Witness ==
    /\ frame.fn = "kmpStringMatching" /\ frame.pc = "loop"
    /\ pattern = <<97, 97>> /\ text = <<97, 97, 97>>
    /\ frame.i = 2 /\ frame.j = 1 /\ frame.matches = <<0>>


InRange(r, t, p) ==
    /\ r.text \subseteq 0..(Len(t) - 1)
    /\ r.pattern \subseteq 0..(Len(p) - 1)
    /\ r.lps \subseteq 0..(Len(p) - 1)

\* C25: in every reachable step of the four script.js matchers and of
\* computeLPS, each index used to read the text is in [0, n), each index
\* used to read the pattern is in [0, m) and each index used to read the LPS
\* table is in [0, m): the reads of the step the call in progress takes
\* next, and the reads the call made before its first step.
C25_ReadsInRange ==
    /\ frame.fn \in Tester => InRange(Reads(frame, text, pattern), text, pattern)
    /\ frame.fn = "rabinKarpStringMatching" =>
          InRange(rabinKarpStringMatching_call_reads(text, pattern), text, pattern)
    /\ frame.fn = "horspoolStringMatching" =>
          InRange(horspoolStringMatching_call_reads(text, pattern), text, pattern)

\* kmpStringMatching stands at the last text position with all but the last
\* pattern character matched: the step reads text[n-1], pattern[m-1] and,
\* after the match, lps[m-1].
C25_Witness ==
    /\ frame.fn = "kmpStringMatching" /\ frame.pc = "loop"
    /\ Len(pattern) = 3 /\ Len(text) = 3
    /\ Reads(frame, text, pattern) = [text |-> {2}, pattern |-> {2}, lps |-> {2}]


\* The offsets of the matcher of sentiment.js that a tag selects.
SentimentOffsets(alg, t, p) ==
    CASE alg = "horspool" -> Run(sentiment_horspoolSearch_call(t, p), t, p).matches
      [] alg = "kmp" -> Run(sentiment_kmpSearch_call(t, p), t, p).matches
      [] alg = "hashing" -> Run(sentiment_hashingSearch_call(t, p), t, p).matches
      [] OTHER -> Run(sentiment_naiveSearch_call(t, p), t, p).matches

\* The boundary characters: whitespace and . , ! ? ; : ' " ( ) [ ] { } -
BoundaryCharacter(c) ==
    c \in WhiteSpace
       \cup {46, 44, 33, 63, 59, 58, 39, 34, 40, 41, 91, 93, 123, 125, 45}

\* The text starts at p or the character before p is a boundary character,
\* and the text ends at p + m or the character at p + m is one.
AtWordBoundary(t, p, pos) ==
    /\ pos = 0 \/ BoundaryCharacter(t[pos])
    /\ pos + Len(p) = Len(t) \/ BoundaryCharacter(t[pos + Len(p) + 1])

\* C26: findMatches of sentiment.js returns a subsequence of the offsets of
\* the matcher selected by the tag (naiveSearch for an unknown tag), keeping
\* offset p exactly when the character before p (or the text start) and the
\* character after the match, at p + m (or the text end), are both boundary
\* characters.
C26_WordBoundary ==
    frame.fn = "sentiment.findMatches" =>
        /\ frame.rawMatches = SentimentOffsets(algorithm, text, pattern)
        /\ StrictlyIncreasing(frame.rawMatches)
        /\ StrictlyIncreasing(frame.matches)
        /\ Range(frame.matches)
              = {pos \in Range(frame.rawMatches) : AtWordBoundary(text, pattern, pos)}

\* findMatches has found " " at 0 and 1 in "  a" and kept 0 alone: after the
\* match at 1 comes "a".
C26_Witness ==
    /\ frame.fn = "sentiment.findMatches"
    /\ text = <<32, 32, 97>> /\ pattern = <<32>>
    /\ frame.rawMatches = <<0, 1>> /\ frame.matches = <<0>>


\* The result kmpStringMatching of search.js gives for a title and a query.
SearchResult(title, query) ==
    Run(search_kmpStringMatching_call(title, query), title, query).matches

\* C27: searchMovies passes to displayResults exactly the movies whose title
\* gives a non-empty kmpStringMatching result for the query, each movie at
\* most once, ordered by non-increasing popularity.
C27_SearchMovies ==
    (frame.fn = "searchMovies" /\ frame.shown.kind = "results") =>
        LET movies == frame.shown.movies
            matching == {k \in 1..Len(frame.moviesData) :
                            SearchResult(frame.moviesData[k].title,
                                         frame.shown.query) # <<>>}
        IN  /\ {movies[k].id : k \in 1..Len(movies)} = matching
            /\ Len(movies) = Cardinality(matching)
            /\ \A k \in 1..Len(movies) :
                  movies[k].title = frame.moviesData[movies[k].id].title
            /\ \A k \in 1..(Len(movies) - 1) :
                  movies[k].popularity >= movies[k + 1].popularity

\* The query "h" has been searched in the table "He" (no popularity), ""
\* (2), "h" (2): the third movie and then the first are displayed.
C27_Witness ==
    /\ frame.fn = "searchMovies" /\ frame.shown.kind = "results"
    /\ frame.shown.query = <<104>>
    /\ frame.moviesData
          = << [id |-> 1, title |-> <<72, 101>>, popularity |-> <<>>],
               [id |-> 2, title |-> <<>>, popularity |-> <<50>>],
               [id |-> 3, title |-> <<104>>, popularity |-> <<50>>] >>
    /\ frame.shown.movies
          = << [id |-> 3, title |-> <<104>>, popularity |-> 2],
               [id |-> 1, title |-> <<72, 101>>, popularity |-> 0] >>


\* C28: in the Algorithm Tester, from the moment performSearch disables
\* searchBtn until its deferred search callback has finished, searchBtn
\* stays disabled, so at most one search is pending at any time.
C28_ButtonDisabled ==
    frame.fn = "performSearch" =>
        /\ frame.searches # <<>> => frame.searchBtn_disabled
        /\ Len(frame.searches) <= 1

\* C29: once displayResults has rendered the result of a search,
\* resultsSection stays visible until the next performSearch starts or a
\* new file finishes loading: a step that hides the rendered result is a
\* performSearch that sets its timer or a reader.onload.
C29_ResultsStayVisible ==
    [][(/\ frame.fn = "performSearch"
        /\ frame.resultsContent.kind = "results"
        /\ frame.resultsSection_display = "block"
        /\ frame'.resultsSection_display = "none")
          => \/ Len(frame'.searches) > Len(frame.searches)
             \/ frame'.readers < frame.readers]_vars


\* C30: analyzeSentiment never runs while SENTIMENT_DATA is null, and
\* loadSentimentData always finishes with SENTIMENT_DATA set: to the
\* fetched data when its try block completes, and to the built-in fallback
\* table when the fetch fails, the response is not OK, or the body cannot
\* be parsed (and when the parsed value is null, on which Object.keys
\* throws inside the try block).
C30_DataLoaded ==
    frame.fn = "performSentimentAnalysis" =>
        /\ frame.analyzed # "null"
        /\ \A k \in 1..Len(frame.calls) :
              frame.calls[k].await \in {"loadSentimentData", "setTimeout"}
                 => frame.SENTIMENT_DATA # "null"
        /\ frame.load.end # "none" =>
              /\ frame.load.data # "null"
              /\ frame.load.end = "ok" => frame.load.data = frame.load.json
              /\ frame.load.end \in {"rejected", "not ok", "syntax error", "type error"}
                    => frame.load.data = "fallback"

\* analyzeSentiment has run on the fallback table: the last load ended with
\* a response that was not OK.
C30_Witness ==
    /\ frame.fn = "performSentimentAnalysis"
    /\ frame.load.end = "not ok"
    /\ frame.analyzed = "fallback"
    /\ frame.SENTIMENT_DATA = "fallback"

=============================================================================
